---- MODULE Spec2Model ----
(***************************************************************************)
(* PuddySQL: the generic condition compiler (PuddySqlQuery.parseWhere and  *)
(* its operator registry) and the tag criteria compiler                    *)
(* (PuddySqlTags.parseWhere), both writing to one placeholder cache.       *)
(*                                                                         *)
(* Spec is one query build: compile calls of both compilers on one cache.  *)
(* SpecWhere is one parseWhere call on a tree and a cache. SpecRegistry is *)
(* registrations followed by compiles. SpecTags is a configured            *)
(* PuddySqlTags compiling one tag.                                         *)
(*                                                                         *)
(* SQL text is a sequence of string tokens; Render concatenates them to    *)
(* the JavaScript string. A placeholder `$${index}` is one token "$n".     *)
(* JavaScript values are records tagged by their type (field t).           *)
(***************************************************************************)
EXTENDS Integers, Sequences, FiniteSets, TLC

VARIABLES
  conditions,     \* PuddySqlQuery.#conditions: key -> resolver
  customValFunc,  \* PuddySqlQuery.#customValFunc: key -> value transform
  wildcardA,      \* PuddySqlTags.#wildcardA (characters)
  wildcardB,      \* PuddySqlTags.#wildcardB (characters)
  useJsonEach,    \* PuddySqlTags.#useJsonEach
  pCache,         \* the placeholder cache {index, values} of the current query
  startIndex,     \* the index the current cache was created with
  frags,          \* texts returned by the compile calls on the current cache
  clean,          \* no compile call on the current cache has thrown
  calls,          \* number of compile calls made on the current cache
  regs,           \* number of registration calls made
  last,           \* the last call: operation, argument, outcome, state before
  noRepeat,       \* PuddySqlTags.#noRepeat
  parseLimit,     \* PuddySqlTags.#parseLimit
  tagInputs,      \* PuddySqlTags.#tagInputs, in insertion order
  specialQueries, \* PuddySqlTags.#specialQueries
  lastTags,       \* the last tokenizer call: operation, argument, outcome
  sqlEngine,      \* PuddySqlEngine.#sqlEngine
  sqlMethods,     \* the engine whose all/get/run are installed on the instance
  tables,         \* PuddySqlInstance.#tables: name -> PuddySqlQuery identity
  tasks,          \* the asynchronous instance calls in flight
  newTables,      \* number of PuddySqlQuery objects constructed by initTable
  dbLog,          \* the calls received by the underlying database object
  lastInst        \* the last settled instance call: operation, argument, outcome

\* The fields and the call record of the tokenizer
tokenizerVars == <<noRepeat, parseLimit, tagInputs, specialQueries, lastTags>>

\* The fields and the call record of the PuddySqlInstance
instanceVars == <<sqlEngine, sqlMethods, tables, tasks, newTables, dbLog, lastInst>>

vars == <<conditions, customValFunc, wildcardA, wildcardB, useJsonEach,
          pCache, startIndex, frags, clean, calls, regs, last, tokenizerVars,
          instanceVars>>

-----------------------------------------------------------------------------
(* Bounds of the model.                                                    *)

MaxCalls == 2
MaxRegs == 2
MaxStart == 3
MaxChildren == 2
MaxTagLen == 3

-----------------------------------------------------------------------------
(* JavaScript values.                                                      *)

Undef == [t |-> "undefined"]
Null == [t |-> "null"]
Str(s) == [t |-> "string", s |-> s]
Chars(c) == [t |-> "chars", c |-> c]
Num(n) == [t |-> "number", n |-> n]
Bool(b) == [t |-> "boolean", b |-> b]
Arr(items) == [t |-> "array", items |-> items]
Obj(keys, vals) == [t |-> "object", keys |-> keys, vals |-> vals]
Func(d) == [t |-> "function", d |-> d]

isJsonObject(v) == v.t = "object"
isString(v) == v.t = "string" \/ v.t = "chars"
isArray(v) == v.t = "array"

HasKey(o, k) == o.t = "object" /\ \E i \in 1..Len(o.keys) : o.keys[i] = k
Get(o, k) ==
  IF HasKey(o, k)
  THEN o.vals[CHOOSE i \in 1..Len(o.keys) : o.keys[i] = k]
  ELSE Undef

\* !v
Falsy(v) ==
  \/ v.t \in {"undefined", "null"}
  \/ v.t = "string" /\ v.s = ""
  \/ v.t = "chars" /\ v.c = <<>>
  \/ v.t = "number" /\ v.n = 0
  \/ v.t = "boolean" /\ ~v.b

\* `${v}` for the values the model embeds in text
ToStr(v) ==
  CASE v.t = "string" -> v.s
    [] v.t = "undefined" -> "undefined"
    [] v.t = "null" -> "null"
    [] v.t = "number" -> ToString(v.n)
    [] v.t = "boolean" -> IF v.b THEN "true" ELSE "false"
    [] OTHER -> "[object Object]"

\* String.prototype.toUpperCase on the strings the model uses: every string
\* of the input sets that holds a lower-case letter is listed.
UpperTable ==
  [s \in {"or", "Or", "oR", "and", "xor", "lower", "Lower", "like", "ilike",
          "soundex", "regexp", "ceil"} |->
     CASE s \in {"or", "Or", "oR"} -> "OR"
       [] s = "and" -> "AND"
       [] s = "xor" -> "XOR"
       [] s \in {"lower", "Lower"} -> "LOWER"
       [] s = "like" -> "LIKE"
       [] s = "ilike" -> "ILIKE"
       [] s = "soundex" -> "SOUNDEX"
       [] s = "regexp" -> "REGEXP"
       [] s = "ceil" -> "CEIL"]
toUpperCase(s) == IF s \in DOMAIN UpperTable THEN UpperTable[s] ELSE s

\* String.prototype.trim() === '' on the keys the model uses
IsBlank(s) == s \in {"", " "}

-----------------------------------------------------------------------------
(* SQL text.                                                               *)

RECURSIVE Render(_)
Render(toks) == IF toks = <<>> THEN "" ELSE Head(toks) \o Render(Tail(toks))

Placeholder(n) == "$" \o ToString(n)

\* Array.prototype.join on texts
RECURSIVE Join(_, _)
Join(texts, sep) ==
  IF texts = <<>> THEN <<>>
  ELSE IF Len(texts) = 1 THEN texts[1]
  ELSE texts[1] \o <<sep>> \o Join(Tail(texts), sep)

-----------------------------------------------------------------------------
(* The operator registry of PuddySqlQuery.                                 *)

\* Properties every plain object ({}) inherits from Object.prototype
ObjectPrototype == {"constructor", "toString"}

\* map[key] on a plain object used as a map
Lookup(map, key) ==
  IF key \in DOMAIN map THEN map[key]
  ELSE IF key \in ObjectPrototype THEN Func([k |-> "proto", name |-> key])
  ELSE Undef

Put(map, key, v) == [x \in DOMAIN map \cup {key} |-> IF x = key THEN v ELSE map[x]]

\* What a registration call does: it throws, or returns with the maps updated
RegResult(threw, conds, cvf) ==
  [threw |-> threw, conditions |-> conds, customValFunc |-> cvf]

\* The checks of the condition handler and the value handler
InvalidHandlers(conditionHandler, valueHandler) ==
  LET isFunc == conditionHandler.t = "function"
      isStr == conditionHandler.t = "string"
      isObj == isJsonObject(conditionHandler)
  IN \/ ~isFunc /\ ~isStr /\ ~isObj
     \/ isObj /\ (Get(conditionHandler, "operator").t # "string"
                  \/ IsBlank(Get(conditionHandler, "operator").s))
     \/ valueHandler # Null /\ valueHandler.t # "function"

\* "Add condition" and "Add value handler if provided"
StoreCondition(conds, cvf, key, conditionHandler, valueHandler) ==
  LET stored ==
        IF conditionHandler.t = "string"
        THEN Func([k |-> "const",
                   result |-> Obj(<<"operator">>, <<conditionHandler>>)])
        ELSE IF isJsonObject(conditionHandler)
        THEN Func([k |-> "const", result |-> conditionHandler])
        ELSE conditionHandler
  IN RegResult(FALSE,
               Put(conds, key.s, stored),
               IF ~Falsy(valueHandler) THEN Put(cvf, key.s, valueHandler) ELSE cvf)

\* A registration that does not look for the key in the maps
addConditionOverwrite(conds, cvf, key, conditionHandler, valueHandler) ==
  IF key.t # "string" \/ IsBlank(key.s)
  THEN RegResult(TRUE, conds, cvf)
  ELSE IF InvalidHandlers(conditionHandler, valueHandler)
  THEN RegResult(TRUE, conds, cvf)
  ELSE StoreCondition(conds, cvf, key, conditionHandler, valueHandler)

addCondition(conds, cvf, key, conditionHandler, valueHandler) ==
  IF key.t # "string" \/ IsBlank(key.s)
  THEN RegResult(TRUE, conds, cvf)
  ELSE IF ~Falsy(Lookup(conds, key.s)) \/ ~Falsy(Lookup(cvf, key.s))
  THEN RegResult(TRUE, conds, cvf)
  ELSE IF InvalidHandlers(conditionHandler, valueHandler)
  THEN RegResult(TRUE, conds, cvf)
  ELSE StoreCondition(conds, cvf, key, conditionHandler, valueHandler)

\* The resolver and the value transform addConditionV2 builds
V2Resolver(funcName, editParamByDefault, operator) ==
  Func([k |-> "v2", funcName |-> funcName.s,
        editParamByDefault |-> editParamByDefault.b, operator |-> operator.s])
V2ValueHandler(funcName) == Func([k |-> "wrap", funcName |-> funcName.s])

addConditionV2(conds, cvf, funcName, editParamByDefault, operator) ==
  IF funcName.t # "string" \/ IsBlank(funcName.s)
  THEN RegResult(TRUE, conds, cvf)
  ELSE IF editParamByDefault.t # "boolean"
  THEN RegResult(TRUE, conds, cvf)
  ELSE IF operator.t # "string" \/ IsBlank(operator.s)
  THEN RegResult(TRUE, conds, cvf)
  ELSE addCondition(conds, cvf, funcName,
                    V2Resolver(funcName, editParamByDefault, operator),
                    V2ValueHandler(funcName))

\* The registrations of the constructor, in order
LikeResolver == Func([k |-> "like"])
ConstructorV1 ==
  << <<"LIKE", LikeResolver>>, <<"NOT", Str("!=")>>, <<"=", Str("=")>>,
     <<"!=", Str("!=")>>, <<">=", Str(">=")>>, <<"<=", Str("<=")>>,
     <<">", Str(">")>>, <<"<", Str("<")>> >>
ConstructorV2 ==
  << <<"SOUNDEX", TRUE, "=">>, <<"LOWER", FALSE, "=">>, <<"UPPER", FALSE, "=">>,
     <<"TRIM", FALSE, "=">>, <<"LTRIM", FALSE, "=">>, <<"RTRIM", FALSE, "=">>,
     <<"LENGTH", FALSE, "=">>, <<"ABS", FALSE, "=">>, <<"ROUND", FALSE, "=">>,
     <<"CEIL", FALSE, ">=">>, <<"FLOOR", FALSE, "<=">>, <<"COALESCE", FALSE, "=">>,
     <<"HEX", FALSE, "=">>, <<"QUOTE", FALSE, "=">>, <<"UNICODE", FALSE, "=">>,
     <<"CHAR", FALSE, "=">>, <<"TYPEOF", FALSE, "=">>, <<"DATE", FALSE, "=">>,
     <<"TIME", FALSE, "=">>, <<"DATETIME", FALSE, "=">>, <<"JULIANDAY", FALSE, "=">> >>

EmptyMap == [x \in {} |-> Undef]

RECURSIVE ConstructV1(_, _)
ConstructV1(todo, reg) ==
  IF reg.threw \/ todo = <<>> THEN reg
  ELSE ConstructV1(Tail(todo),
         addCondition(reg.conditions, reg.customValFunc,
                      Str(Head(todo)[1]), Head(todo)[2], Null))

RECURSIVE ConstructV2(_, _)
ConstructV2(todo, reg) ==
  IF reg.threw \/ todo = <<>> THEN reg
  ELSE ConstructV2(Tail(todo),
         addConditionV2(reg.conditions, reg.customValFunc,
                        Str(Head(todo)[1]), Bool(Head(todo)[2]), Str(Head(todo)[3])))

Constructor ==
  ConstructV2(ConstructorV2,
              ConstructV1(ConstructorV1, RegResult(FALSE, EmptyMap, EmptyMap)))

\* this.#conditions[selected](cond): what a stored resolver returns
Resolve(resolver, cond) ==
  LET d == resolver.d IN
  CASE d.k = "const" -> d.result
    [] d.k = "like" ->
         LET lPos == Get(cond, "lPos")
             pre == IF lPos.t # "string" \/ lPos = Str("left") THEN "%" ELSE ""
             post == IF lPos.t # "string" \/ lPos = Str("right") THEN "%" ELSE ""
         IN Obj(<<"operator", "value">>,
                <<Str("LIKE"), Str(pre \o ToStr(Get(cond, "value")) \o post)>>)
    [] d.k = "v2" ->
         LET newOp == Get(cond, "newOp")
             fn == Get(cond, "funcName")
         IN Obj(<<"operator", "valType", "column">>,
                << IF newOp.t = "string" THEN newOp ELSE Str(d.operator),
                   IF fn.t = "string" THEN fn
                   ELSE IF d.editParamByDefault /\ fn # Null THEN Str(d.funcName)
                   ELSE Null,
                   Str(d.funcName \o "(" \o ToStr(Get(cond, "column")) \o ")") >>)
    [] OTHER -> Obj(<<>>, <<>>)

\* this.#customValFunc[valType](param): what a stored value transform returns
ApplyValFunc(f, param) ==
  CASE f.d.k = "wrap" -> <<f.d.funcName \o "(">> \o param \o <<")">>
    [] f.d.k = "proto" /\ f.d.name = "toString" -> <<"[object Object]">>
    [] OTHER -> param

-----------------------------------------------------------------------------
(* PuddySqlQuery.parseWhere: the generic condition compiler.               *)

Cache(index, values) == [index |-> index, values |-> values]

\* What a compile call does: it throws, or returns text; either way the
\* cache holds what the call has written to it so far
Compiled(threw, text, cache) == [threw |-> threw, text |-> text, cache |-> cache]

\* An Array.prototype.map in progress: the texts its callback has returned,
\* the cache, and whether the callback has thrown
Mapped(threw, texts, cache) == [threw |-> threw, texts |-> texts, cache |-> cache]

\* The callback has run with outcome r: its text joins the array, a throw
\* ends the map
Push(acc, r) ==
  Mapped(r.threw, IF r.threw THEN <<>> ELSE Append(acc.texts, r.text), r.cache)

\* innerConditions.join(sep), returned
Joined(m, sep) == Compiled(m.threw, Join(m.texts, sep), m.cache)

\* pCache.values.push(value)
PushValue(pc, value) == [pc EXCEPT !.values = Append(@, value)]

\* A variant that hands out the index without advancing it
getParamResultSameIndex(pc, valType, cvf) ==
  LET f == Lookup(cvf, ToStr(valType))
  IN [text |-> IF f.t = "function"
               THEN ApplyValFunc(f, <<Placeholder(pc.index)>>)
               ELSE <<Placeholder(pc.index)>>,
      cache |-> pc]

getParamResult(pc, valType, cvf) ==
  LET newIndex == pc.index
      f == Lookup(cvf, ToStr(valType))
  IN [text |-> IF f.t = "function"
               THEN ApplyValFunc(f, <<Placeholder(newIndex)>>)
               ELSE <<Placeholder(newIndex)>>,
      cache |-> [pc EXCEPT !.index = @ + 1]]

\* A variant that compares group with 'OR' as written
LogicExactCase(group) ==
  IF Get(group, "group") = Str("OR") THEN "OR" ELSE "AND"

\* group.conditions: the logical operator that joins the children
Logic(group) ==
  IF Get(group, "group").t = "string" /\ toUpperCase(Get(group, "group").s) = "OR"
  THEN "OR" ELSE "AND"

\* `(${this.parseWhere(pCache, cond)})`
WrapChild(r) == Compiled(r.threw, <<"(">> \o r.text \o <<")">>, r.cache)

\* The resolver of an operator string, or undefined
Selected(conds, operator) ==
  IF operator.t = "string" THEN Lookup(conds, toUpperCase(operator.s)) ELSE Undef

\* What the resolver of a condition's operator returns; an object without
\* fields when there is none
Result(conds, cond) ==
  LET sel == Selected(conds, Get(cond, "operator"))
  IN IF sel.t = "function" THEN Resolve(sel, cond) ELSE Obj(<<>>, <<>>)

\* The fields of the resolver's result that override the condition's own
Override(result, cond, col) ==
  [operator |-> IF Get(result, "operator").t = "string"
                THEN Get(result, "operator").s ELSE "=",
   value |-> IF Get(result, "value").t # "undefined"
             THEN Get(result, "value") ELSE Get(cond, "value"),
   col |-> IF Get(result, "column").t = "string"
           THEN Get(result, "column").s ELSE col,
   valType |-> IF Get(result, "valType").t = "string"
               THEN Get(result, "valType") ELSE Get(cond, "valType")]

\* `(${col} ${operator} $${getParamResult(valType)})`
FlatText(o, param) ==
  Compiled(FALSE,
           <<"(", o.col, " ", o.operator, " ", "$">> \o param.text \o <<")">>,
           param.cache)

\* pCache.values.push(value), then the text of the entry
FlatPush(pc, o, cvf) ==
  FlatText(o, getParamResult(PushValue(pc, o.value), o.valType, cvf))

\* A flat object fallback that takes any entry as a condition
FlatEntryNoCheck(pc, newCol, cond, conds, cvf) ==
  FlatPush(pc, Override(Result(conds, cond), cond, newCol), cvf)

\* One entry [newCol, cond] of the flat object fallback
FlatEntry(pc, newCol, cond, conds, cvf) ==
  IF ~isJsonObject(cond) THEN Compiled(TRUE, <<>>, pc)
  ELSE FlatPush(pc, Override(Result(conds, cond), cond, newCol), cvf)

\* `${col} ${operator} ${getParamResult(valType)}`
SingleText(o, param) ==
  Compiled(FALSE, <<o.col, " ", o.operator, " ">> \o param.text, param.cache)

\* pCache.values.push(value), then the text of the condition
SinglePush(pc, o, cvf) ==
  SingleText(o, getParamResult(PushValue(pc, o.value), o.valType, cvf))

\* "If it's a single condition"
SingleCondition(pc, group, conds, cvf) ==
  SinglePush(pc, Override(Result(conds, group), group, ToStr(Get(group, "column"))),
             cvf)

\* Object.entries(group).map(...) of the flat object fallback
RECURSIVE MapEntries(_, _, _, _, _)
MapEntries(acc, keys, vals, conds, cvf) ==
  IF keys = <<>> \/ acc.threw THEN acc
  ELSE MapEntries(Push(acc, FlatEntry(acc.cache, Head(keys), Head(vals), conds, cvf)),
                  Tail(keys), Tail(vals), conds, cvf)

RECURSIVE parseWhere(_, _, _, _)
RECURSIVE MapConditions(_, _, _, _)

\* group.conditions.map(...): the children left to right on one cache
MapConditions(acc, items, conds, cvf) ==
  IF items = <<>> \/ acc.threw THEN acc
  ELSE MapConditions(Push(acc, WrapChild(parseWhere(acc.cache, Head(items), conds, cvf))),
                     Tail(items), conds, cvf)

parseWhere(pc, group, conds, cvf) ==
  IF ~isJsonObject(group) THEN Compiled(FALSE, <<>>, pc)
  ELSE IF isArray(Get(group, "conditions"))
  THEN Joined(MapConditions(Mapped(FALSE, <<>>, pc), Get(group, "conditions").items,
                            conds, cvf),
              " " \o Logic(group) \o " ")
  ELSE IF Falsy(Get(group, "column"))
  THEN Joined(MapEntries(Mapped(FALSE, <<>>, pc), group.keys, group.vals, conds, cvf),
              " AND ")
  ELSE SingleCondition(pc, group, conds, cvf)

-----------------------------------------------------------------------------
(* PuddySqlTags.parseWhere: the tag criteria compiler. Tags are strings of *)
(* characters, Chars(<<"r", "a", "*">>).                                   *)

\* String.prototype.includes
RECURSIVE Includes(_, _)
Includes(c, pat) ==
  IF Len(pat) > Len(c) THEN FALSE
  ELSE IF SubSeq(c, 1, Len(pat)) = pat THEN TRUE
  ELSE Includes(Tail(c), pat)

\* String.prototype.replaceAll with a string pattern
RECURSIVE ReplaceAll(_, _, _)
ReplaceAll(c, pat, rep) ==
  IF pat = <<>>
  THEN IF c = <<>> THEN rep ELSE rep \o <<Head(c)>> \o ReplaceAll(Tail(c), pat, rep)
  ELSE IF Len(pat) > Len(c) THEN c
  ELSE IF SubSeq(c, 1, Len(pat)) = pat
  THEN rep \o ReplaceAll(SubSeq(c, Len(pat) + 1, Len(c)), pat, rep)
  ELSE <<Head(c)>> \o ReplaceAll(Tail(c), pat, rep)

\* .replace(/([%_])/g, '\\$1')
RECURSIVE EscapeLike(_)
EscapeLike(c) ==
  IF c = <<>> THEN <<>>
  ELSE (IF Head(c) \in {"%", "_"} THEN <<"\\", Head(c)>> ELSE <<Head(c)>>)
       \o EscapeLike(Tail(c))

\* Fields of PuddySqlTags the model keeps at their initial values
jsonEach == "json_array_elements_text"
defaultColumn == "tags"
defaultValueName == Null

createQuery(funcName, param, useLike, tagsColumn, tagsValue, uje) ==
  IF uje
  THEN <<funcName, " (SELECT 1 FROM ", jsonEach \o "(" \o tagsColumn \o ")",
         " WHERE value ", IF useLike THEN "LIKE" ELSE "=", " ", param, ")">>
  ELSE <<funcName, " (SELECT 1 FROM ", tagsColumn, " WHERE ",
         tagsColumn \o "." \o tagsValue, " ",
         IF useLike THEN "LIKE" ELSE "=", " ", param, ")">>

Filtered(threw, param, usesWildcard, not, cache) ==
  [threw |-> threw, param |-> param, usesWildcard |-> usesWildcard,
   not |-> not, cache |-> cache]

\* A variant that does not escape '%' and '_'
filterTagNoEscape(tag, pc, allowWildcards, wA, wB) ==
  IF tag.t # "chars" THEN Filtered(TRUE, "", FALSE, FALSE, pc)
  ELSE
    LET not == tag.c # <<>> /\ Head(tag.c) = "!"
        cleanTag == IF not THEN Tail(tag.c) ELSE tag.c
        usesWildcard == allowWildcards /\ (Includes(cleanTag, wA) \/ Includes(cleanTag, wB))
        filteredTag == IF usesWildcard
                       THEN ReplaceAll(ReplaceAll(cleanTag, wA, <<"%">>), wB, <<"_">>)
                       ELSE cleanTag
    IN Filtered(FALSE, Placeholder(pc.index), usesWildcard, not,
                Cache(pc.index + 1, Append(pc.values, Chars(filteredTag))))

filterTag(tag, pc, allowWildcards, wA, wB) ==
  IF tag.t # "chars" THEN Filtered(TRUE, "", FALSE, FALSE, pc)
  ELSE
    LET not == tag.c # <<>> /\ Head(tag.c) = "!"
        cleanTag == IF not THEN Tail(tag.c) ELSE tag.c
        usesWildcard == allowWildcards /\ (Includes(cleanTag, wA) \/ Includes(cleanTag, wB))
        filteredTag == IF usesWildcard
                       THEN ReplaceAll(ReplaceAll(EscapeLike(cleanTag), wA, <<"%">>),
                                       wB, <<"_">>)
                       ELSE cleanTag
    IN Filtered(FALSE, Placeholder(pc.index), usesWildcard, not,
                Cache(pc.index + 1, Append(pc.values, Chars(filteredTag))))

\* createQuery(`${not ? 'NOT ' : ''}EXISTS`, param, usesWildcard)
TagQuery(f, tagsColumn, tagsValue, uje) ==
  Compiled(f.threw,
           IF f.threw THEN <<>>
           ELSE createQuery(IF f.not THEN "NOT EXISTS" ELSE "EXISTS",
                            f.param, f.usesWildcard, tagsColumn, tagsValue, uje),
           f.cache)

\* One tag: filterTag, then createQuery
TagFragment(tag, pc, allowWildcards, tagsColumn, tagsValue, wA, wB, uje) ==
  TagQuery(filterTag(tag, pc, allowWildcards, wA, wB), tagsColumn, tagsValue, uje)

\* clause.map(...) of an OR group
RECURSIVE MapOrs(_, _, _, _, _, _, _, _)
MapOrs(acc, tags, allowWildcards, tagsColumn, tagsValue, wA, wB, uje) ==
  IF tags = <<>> \/ acc.threw THEN acc
  ELSE MapOrs(Push(acc, TagFragment(Head(tags), acc.cache, allowWildcards,
                                    tagsColumn, tagsValue, wA, wB, uje)),
              Tail(tags), allowWildcards, tagsColumn, tagsValue, wA, wB, uje)

\* A variant that pushes the joined members without parentheses
PushOrsBare(acc, ors) ==
  Mapped(ors.threw,
         IF ors.threw THEN <<>>
         ELSE IF ors.texts # <<>>
         THEN Append(acc.texts, Join(ors.texts, " OR "))
         ELSE acc.texts,
         ors.cache)

\* if (ors.length) where.push(`(${ors.join(' OR ')})`)
PushOrs(acc, ors) ==
  Mapped(ors.threw,
         IF ors.threw THEN <<>>
         ELSE IF ors.texts # <<>>
         THEN Append(acc.texts, <<"(">> \o Join(ors.texts, " OR ") \o <<")">>)
         ELSE acc.texts,
         ors.cache)

\* for (const clause of include): the fragments pushed to `where`
RECURSIVE IncludeLoop(_, _, _, _, _, _, _, _)
IncludeLoop(acc, include, allowWildcards, tagsColumn, tagsValue, wA, wB, uje) ==
  IF include = <<>> \/ acc.threw THEN acc
  ELSE IncludeLoop(
         IF isArray(Head(include))
         THEN PushOrs(acc, MapOrs(Mapped(FALSE, <<>>, acc.cache), Head(include).items,
                                  allowWildcards, tagsColumn, tagsValue, wA, wB, uje))
         ELSE Push(acc, TagFragment(Head(include), acc.cache, allowWildcards,
                                    tagsColumn, tagsValue, wA, wB, uje)),
         Tail(include), allowWildcards, tagsColumn, tagsValue, wA, wB, uje)

\* A variant that returns the empty text when nothing was pushed
WhereTextEmpty(texts) ==
  IF texts # <<>> THEN <<"(">> \o Join(texts, " AND ") \o <<")">> ELSE <<>>

\* where.length ? `(${where.join(' AND ')})` : '1'
WhereText(texts) ==
  IF texts # <<>> THEN <<"(">> \o Join(texts, " AND ") \o <<")">> ELSE <<"1">>

\* return of parseWhere
Returned(where) ==
  Compiled(where.threw, IF where.threw THEN <<>> ELSE WhereText(where.texts),
           where.cache)

tagsParseWhere(group, pc, wA, wB, uje) ==
  IF ~isJsonObject(group) THEN Compiled(TRUE, <<>>, pc)
  ELSE IF ~isArray(Get(group, "include")) THEN Compiled(TRUE, <<>>, pc)
  ELSE Returned(
         IncludeLoop(Mapped(FALSE, <<>>, pc), Get(group, "include").items,
                     IF Get(group, "allowWildcards").t = "boolean"
                     THEN Get(group, "allowWildcards").b ELSE FALSE,
                     IF Falsy(Get(group, "column")) THEN defaultColumn
                     ELSE ToStr(Get(group, "column")),
                     IF Falsy(Get(group, "valueName")) THEN ToStr(defaultValueName)
                     ELSE ToStr(Get(group, "valueName")),
                     wA, wB, uje))

-----------------------------------------------------------------------------
(* The tag expression tokenizer (PuddySqlTags.parseString). A JavaScript   *)
(* string it reads is a sequence of characters.                            *)

\* The characters /\s/ matches among those of the inputs
Whitespace == {" ", "\t", "\n"}

\* input.replace(/\s+/g, ' ')
\* (each run of whitespace keeps one position, which becomes a space)
CollapseWhitespace(c) ==
  SelectSeq([i \in 1..Len(c) |->
               IF c[i] \notin Whitespace THEN c[i]
               ELSE IF i > 1 /\ c[i - 1] \in Whitespace THEN ""
               ELSE " "],
            LAMBDA ch : ch # "")

RECURSIVE TrimStart(_)
TrimStart(c) ==
  IF c # <<>> /\ Head(c) \in Whitespace THEN TrimStart(Tail(c)) ELSE c
RECURSIVE TrimEnd(_)
TrimEnd(c) ==
  IF c # <<>> /\ c[Len(c)] \in Whitespace
  THEN TrimEnd(SubSeq(c, 1, Len(c) - 1)) ELSE c
\* String.prototype.trim
Trim(c) == TrimEnd(TrimStart(c))

LowerCase ==
  <<"a", "b", "c", "d", "e", "f", "g", "h", "i", "j", "k", "l", "m",
    "n", "o", "p", "q", "r", "s", "t", "u", "v", "w", "x", "y", "z">>
UpperCase ==
  <<"A", "B", "C", "D", "E", "F", "G", "H", "I", "J", "K", "L", "M",
    "N", "O", "P", "Q", "R", "S", "T", "U", "V", "W", "X", "Y", "Z">>
\* String.prototype.toUpperCase on a sequence of ASCII characters
ToUpper ==
  [ch \in {LowerCase[i] : i \in DOMAIN LowerCase} |->
     UpperCase[CHOOSE i \in DOMAIN LowerCase : LowerCase[i] = ch]]
UpperChar(ch) == IF ch \in DOMAIN ToUpper THEN ToUpper[ch] ELSE ch
UpperChars(c) == [i \in 1..Len(c) |-> UpperChar(c[i])]

\* input.slice(i, i + n), the first character having position 1
Slice(c, i, n) == SubSeq(c, i, IF i + n - 1 > Len(c) THEN Len(c) ELSE i + n - 1)

StrictFlags == {"emptyInput", "parseLimit", "openParens", "quoteChar"}
\* _.defaults(strictConfig, { emptyInput: true, parseLimit: true,
\*                            openParens: true, quoteChar: true })
Defaults(strictConfig) ==
  [k \in StrictFlags |-> IF k \in DOMAIN strictConfig THEN strictConfig[k] ELSE TRUE]

\* The local variables of parseString; threw names the error thrown, if any
Tokens(chunks, currentGroup, buffer, inQuotes, quoteChar, uniqueTags, inGroup, openParens, tagCount, threw) ==
  [chunks |-> chunks, currentGroup |-> currentGroup, buffer |-> buffer,
   inQuotes |-> inQuotes, quoteChar |-> quoteChar, uniqueTags |-> uniqueTags,
   inGroup |-> inGroup, openParens |-> openParens, tagCount |-> tagCount,
   threw |-> threw]

TokensStart == Tokens(<<>>, <<>>, <<>>, FALSE, "", {}, FALSE, 0, 0, "")

Throw(st, error) == [st EXCEPT !.threw = error]

\* currentGroup.push(value) with its bookkeeping
AcceptTerm(st, value) ==
  [st EXCEPT !.currentGroup = Append(@, value),
             !.uniqueTags = IF st.inGroup THEN @ ELSE @ \cup {value},
             !.tagCount = @ + 1,
             !.buffer = <<>>]

\* flushBuffer(); strictLimit is strictMode && strictCfg.parseLimit. (A
\* statement after a throw is not reached: st passes through unchanged.)
flushBuffer(st, noRep, limit, strictLimit) ==
  IF st.threw # "" THEN st
  ELSE IF Trim(st.buffer) = <<>> THEN st
  ELSE IF limit < 0 \/ st.tagCount < limit
  THEN IF ~noRep \/ st.inGroup \/ Trim(st.buffer) \notin st.uniqueTags
       THEN AcceptTerm(st, Trim(st.buffer))
       ELSE [st EXCEPT !.buffer = <<>>]
  ELSE IF strictLimit THEN Throw(st, "parseLimit")
  ELSE [st EXCEPT !.buffer = <<>>]

\* A variant that pushes every group as an array
flushGroupAlwaysArray(st) ==
  IF st.threw # "" THEN st
  ELSE [st EXCEPT
          !.chunks = IF Len(st.currentGroup) >= 1
                     THEN Append(@, Arr([i \in 1..Len(st.currentGroup) |->
                                           Chars(st.currentGroup[i])]))
                     ELSE @,
          !.currentGroup = <<>>]

\* flushGroup()
flushGroup(st) ==
  IF st.threw # "" THEN st
  ELSE [st EXCEPT
          !.chunks = IF Len(st.currentGroup) = 1
                     THEN Append(@, Chars(st.currentGroup[1]))
                     ELSE IF Len(st.currentGroup) > 1
                     THEN Append(@, Arr([i \in 1..Len(st.currentGroup) |->
                                           Chars(st.currentGroup[i])]))
                     ELSE @,
          !.currentGroup = <<>>]

\* currentGroup = []; inGroup = true
OpenGroup(st) ==
  IF st.threw # "" THEN st
  ELSE [st EXCEPT !.currentGroup = <<>>, !.inGroup = TRUE]

\* inGroup = false
CloseGroup(st) == IF st.threw # "" THEN st ELSE [st EXCEPT !.inGroup = FALSE]

QuoteChars == {"\"", "'"}

\* A variant that recognises the keywords and parentheses inside quotes
StepInQuotesKeywords(st, ch, isAnd, isOr, noRep, limit, strict, sc) ==
  IF st.inQuotes /\ ch = st.quoteChar
  THEN [st EXCEPT !.inQuotes = FALSE, !.quoteChar = ""]
  ELSE IF ~st.inQuotes /\ ch \in QuoteChars
  THEN [st EXCEPT !.inQuotes = TRUE, !.quoteChar = ch]
  ELSE IF ch = "("
  THEN OpenGroup(flushBuffer([st EXCEPT !.openParens = @ + 1], noRep, limit,
                             strict /\ sc.parseLimit))
  ELSE IF ch = ")"
  THEN IF strict /\ sc.openParens /\ st.openParens <= 0
       THEN Throw(st, "openParens")
       ELSE CloseGroup(flushGroup(flushBuffer([st EXCEPT !.openParens = @ - 1],
                                              noRep, limit, strict /\ sc.parseLimit)))
  ELSE IF isAnd
  THEN flushGroup(flushBuffer(st, noRep, limit, strict /\ sc.parseLimit))
  ELSE IF isOr THEN flushBuffer(st, noRep, limit, strict /\ sc.parseLimit)
  ELSE [st EXCEPT !.buffer = Append(@, ch)]

\* A variant in which AND ends the term but not the chunk
StepAndKeepsChunk(st, ch, isAnd, isOr, noRep, limit, strict, sc) ==
  IF st.inQuotes
  THEN IF ch = st.quoteChar
       THEN [st EXCEPT !.inQuotes = FALSE, !.quoteChar = ""]
       ELSE [st EXCEPT !.buffer = Append(@, ch)]
  ELSE IF ch \in QuoteChars
  THEN [st EXCEPT !.inQuotes = TRUE, !.quoteChar = ch]
  ELSE IF ch = "("
  THEN OpenGroup(flushBuffer([st EXCEPT !.openParens = @ + 1], noRep, limit,
                             strict /\ sc.parseLimit))
  ELSE IF ch = ")"
  THEN IF strict /\ sc.openParens /\ st.openParens <= 0
       THEN Throw(st, "openParens")
       ELSE CloseGroup(flushGroup(flushBuffer([st EXCEPT !.openParens = @ - 1],
                                              noRep, limit, strict /\ sc.parseLimit)))
  ELSE IF isAnd \/ isOr
  THEN flushBuffer(st, noRep, limit, strict /\ sc.parseLimit)
  ELSE [st EXCEPT !.buffer = Append(@, ch)]

\* One iteration of the loop over the input, at character ch; isAnd is
\* next4 === ' AND', isOr is next3 === 'OR '
Step(st, ch, isAnd, isOr, noRep, limit, strict, sc) ==
  IF st.inQuotes
  THEN IF ch = st.quoteChar
       THEN [st EXCEPT !.inQuotes = FALSE, !.quoteChar = ""]
       ELSE [st EXCEPT !.buffer = Append(@, ch)]
  ELSE IF ch \in QuoteChars
  THEN [st EXCEPT !.inQuotes = TRUE, !.quoteChar = ch]
  ELSE IF ch = "("
  THEN OpenGroup(flushBuffer([st EXCEPT !.openParens = @ + 1], noRep, limit,
                             strict /\ sc.parseLimit))
  ELSE IF ch = ")"
  THEN IF strict /\ sc.openParens /\ st.openParens <= 0
       THEN Throw(st, "openParens")
       ELSE CloseGroup(flushGroup(flushBuffer([st EXCEPT !.openParens = @ - 1],
                                              noRep, limit, strict /\ sc.parseLimit)))
  ELSE IF isAnd
  THEN flushGroup(flushBuffer(st, noRep, limit, strict /\ sc.parseLimit))
  ELSE IF isOr THEN flushBuffer(st, noRep, limit, strict /\ sc.parseLimit)
  ELSE [st EXCEPT !.buffer = Append(@, ch)]

\* The characters one iteration consumes: i += 3 or i += 2 after a keyword
Width(st, ch, isAnd, isOr) ==
  IF st.inQuotes \/ ch \in QuoteChars \cup {"(", ")"} THEN 1
  ELSE IF isAnd THEN 4
  ELSE IF isOr THEN 3
  ELSE 1

AndKeyword == <<" ", "A", "N", "D">>
OrKeyword == <<"O", "R", " ">>

\* for (let i = 0; i < input.length; i++)
RECURSIVE Scan(_, _, _, _, _, _, _)
Scan(st, input, i, noRep, limit, strict, sc) ==
  IF st.threw # "" \/ i > Len(input) THEN st
  ELSE Scan(Step(st, input[i],
                 UpperChars(Slice(input, i, 4)) = AndKeyword,
                 UpperChars(Slice(input, i, 3)) = OrKeyword,
                 noRep, limit, strict, sc),
            input,
            i + Width(st, input[i],
                      UpperChars(Slice(input, i, 4)) = AndKeyword,
                      UpperChars(Slice(input, i, 3)) = OrKeyword),
            noRep, limit, strict, sc)

\* A variant without the checks after the loop
FinishUnchecked(st, noRep, limit, strict, sc) ==
  flushGroup(flushBuffer(st, noRep, limit, strict /\ sc.parseLimit))

\* After the loop: the strict checks, then flushBuffer(); flushGroup()
Finish(st, noRep, limit, strict, sc) ==
  IF st.threw # "" THEN st
  ELSE IF strict /\ sc.quoteChar /\ st.inQuotes THEN Throw(st, "quoteChar")
  ELSE IF strict /\ sc.openParens /\ st.openParens > 0 THEN Throw(st, "openParens")
  ELSE flushGroup(flushBuffer(st, noRep, limit, strict /\ sc.parseLimit))

\* parseString from the trimmed input to the chunks
Tokenize(input, noRep, limit, strict, sc) ==
  IF strict /\ sc.emptyInput /\ input = <<>> THEN Throw(TokensStart, "emptyInput")
  ELSE Finish(Scan(TokensStart, input, 1, noRep, limit, strict, sc),
              noRep, limit, strict, sc)

-----------------------------------------------------------------------------
(* Specials extraction (PuddySqlTags.#extractSpecialsFromChunks).          *)

\* One entry of #tagInputs, an object whose keys keep insertion order; the
\* symbols of the inputs are single characters
TagInput(symbol, list, valueKey) ==
  [symbol |-> symbol, list |-> list, valueKey |-> valueKey]

\* #tagInputs = { '^': {list: 'boosts', valueKey: 'boost'},
\*                '~': {list: 'fuzzies', valueKey: 'fuzzy'} }
DefaultTagInputs ==
  <<TagInput("^", "boosts", "boost"), TagInput("~", "fuzzies", "fuzzy")>>

\* A special query { title, parser }; title and parser are JavaScript values
SpecialQuery(title, parser) == [t |-> "object", title |-> title, parser |-> parser]

\* term.includes(ch) for a single character
HasChar(c, ch) == \E i \in 1..Len(c) : c[i] = ch

\* term.split(ch) for a single character
SepCount(c, ch, i) == Cardinality({j \in 1..i : c[j] = ch})
\* The position of the k-th separator; 0 before the first, Len(c) + 1 after
\* the last
SepPos(c, ch, k) ==
  IF k = 0 THEN 0
  ELSE IF k > SepCount(c, ch, Len(c)) THEN Len(c) + 1
  ELSE CHOOSE i \in 1..Len(c) : c[i] = ch /\ SepCount(c, ch, i) = k
SplitAt(c, ch) ==
  [k \in 1..(SepCount(c, ch, Len(c)) + 1) |->
     SubSeq(c, SepPos(c, ch, k - 1) + 1, SepPos(c, ch, k) - 1)]

\* parts.join(ch)
RECURSIVE JoinChars(_, _)
JoinChars(parts, ch) ==
  IF parts = <<>> THEN <<>>
  ELSE IF Len(parts) = 1 THEN parts[1]
  ELSE parts[1] \o <<ch>> \o JoinChars(Tail(parts), ch)

Digits == <<"0", "1", "2", "3", "4", "5", "6", "7", "8", "9">>
IsDigit(ch) == \E i \in DOMAIN Digits : Digits[i] = ch
DigitValue(ch) == (CHOOSE i \in DOMAIN Digits : Digits[i] = ch) - 1

\* The value of the longest prefix of digits; nan when there is none
RECURSIVE DigitsPrefix(_, _, _)
DigitsPrefix(c, n, any) ==
  IF c # <<>> /\ IsDigit(Head(c))
  THEN DigitsPrefix(Tail(c), n * 10 + DigitValue(Head(c)), TRUE)
  ELSE [nan |-> ~any, n |-> n]

Negated(r) == [nan |-> r.nan, n |-> 0 - r.n]

\* parseFloat on the strings of the inputs, which hold no '.', no exponent
\* and no 'Infinity': leading white space, a sign, then decimal digits
SignedDigits(c) ==
  IF c # <<>> /\ Head(c) = "-" THEN Negated(DigitsPrefix(Tail(c), 0, FALSE))
  ELSE IF c # <<>> /\ Head(c) = "+" THEN DigitsPrefix(Tail(c), 0, FALSE)
  ELSE DigitsPrefix(c, 0, FALSE)
parseFloat(c) == SignedDigits(TrimStart(c))

\* A variant that does not read '!' as a minus sign
ModifierValuePlain(rawValue) ==
  IF parseFloat(rawValue).nan THEN 1 ELSE parseFloat(rawValue).n

\* let value = parseFloat(rawValue.replace(/\!/g, '-'));
\* if (Number.isNaN(value)) value = 1;
ModifierValue(rawValue) ==
  IF parseFloat(ReplaceAll(rawValue, <<"!">>, <<"-">>)).nan THEN 1
  ELSE parseFloat(ReplaceAll(rawValue, <<"!">>, <<"-">>)).n

\* { term: termValue.trim(), [valueKey]: value }
ModifierRecord(term, valueKey, value) ==
  IF valueKey = "term" THEN Obj(<<"term">>, <<Num(value)>>)
  ELSE Obj(<<"term", valueKey>>, <<Chars(term), Num(value)>>)

\* The local variables of #extractSpecialsFromChunks: chunks holds the
\* entries at positions i.. of the chunk list (already visited),
\* remainingTerms those of the chunk being visited
Extraction(chunks, remainingTerms, specials, outputGroups, uniqueMap, uniqueTags) ==
  [chunks |-> chunks, remainingTerms |-> remainingTerms, specials |-> specials,
   outputGroups |-> outputGroups, uniqueMap |-> uniqueMap, uniqueTags |-> uniqueTags]

ListNames(inputs) == {inputs[k].list : k \in DOMAIN inputs}

ExtractionStart(inputs) ==
  Extraction(<<>>, <<>>, <<>>, [l \in ListNames(inputs) |-> <<>>],
             [l \in ListNames(inputs) |-> {}], {})

\* if (!this.#noRepeat || Array.isArray(group) || !uniqueTags.has(term)) {
\*   remainingTerms.push(term); if (!Array.isArray(group)) uniqueTags.add(term); }
KeepTerm(acc, term, isArr, noRep) ==
  IF ~noRep \/ isArr \/ term \notin acc.uniqueTags
  THEN [acc EXCEPT !.remainingTerms = Append(@, term),
                   !.uniqueTags = IF isArr THEN @ ELSE @ \cup {term}]
  ELSE acc

\* if (!uniqueMap[list].has(term)) { outputGroups[list].push(...);
\*                                   uniqueMap[list].add(term); }
AddRecord(acc, list, valueKey, term, value) ==
  IF term \notin acc.uniqueMap[list]
  THEN [acc EXCEPT !.outputGroups[list] =
                     Append(@, ModifierRecord(term, valueKey, value)),
                   !.uniqueMap[list] = @ \cup {term}]
  ELSE acc

\* A term that includes the symbol of input; parts is term.split(symbol)
ModifierTerm(acc, input, parts, isArr, noRep) ==
  KeepTerm(AddRecord(acc, input.list, input.valueKey, Trim(parts[1]),
                     ModifierValue(parts[2])),
           Trim(parts[1]), isArr, noRep)

\* found.parser(value) for the parsers of the inputs
ApplyParser(parser, value) ==
  IF parser.t # "function" THEN Chars(value)
  ELSE IF parser.d = "toUpperCase" THEN Chars(UpperChars(value))
  ELSE Num(Len(value))

\* this.#specialQueries.find((q) => q.title === key): its position, or 0
FindSpecial(queries, key) ==
  IF \E k \in DOMAIN queries : queries[k].title = Chars(key)
  THEN CHOOSE k \in DOMAIN queries :
         /\ queries[k].title = Chars(key)
         /\ \A j \in 1..(k - 1) : queries[j].title # Chars(key)
  ELSE 0

\* A variant that keeps the term of a registered special query
SpecialTermKept(acc, term, parts, queries, found) ==
  IF found > 0
  THEN [acc EXCEPT !.specials =
                     Append(@, Obj(<<"key", "value">>,
                                   <<Chars(parts[1]),
                                     ApplyParser(queries[found].parser,
                                                 JoinChars(Tail(parts), ":"))>>)),
                   !.remainingTerms = Append(@, term)]
  ELSE [acc EXCEPT !.remainingTerms = Append(@, term)]

\* A term that includes ':'; parts is term.split(':'), found the position
\* of the special query titled parts[1]
SpecialTerm(acc, term, parts, queries, found) ==
  IF found > 0
  THEN [acc EXCEPT !.specials =
                     Append(@, Obj(<<"key", "value">>,
                                   <<Chars(parts[1]),
                                     ApplyParser(queries[found].parser,
                                                 JoinChars(Tail(parts), ":"))>>))]
  ELSE [acc EXCEPT !.remainingTerms = Append(@, term)]

\* for (const symbol in this.#tagInputs) if (term.includes(symbol)): the
\* position of the first input whose symbol the term includes, or 0
MatchedInput(term, inputs) ==
  IF \E k \in DOMAIN inputs : HasChar(term, inputs[k].symbol)
  THEN CHOOSE k \in DOMAIN inputs :
         /\ HasChar(term, inputs[k].symbol)
         /\ \A j \in 1..(k - 1) : ~HasChar(term, inputs[j].symbol)
  ELSE 0

\* The body of for (const term of terms), matched = MatchedInput(term)
ExtractTerm(acc, term, matched, isArr, inputs, queries, noRep) ==
  IF matched > 0
  THEN ModifierTerm(acc, inputs[matched], SplitAt(term, inputs[matched].symbol),
                    isArr, noRep)
  ELSE IF HasChar(term, ":")
  THEN SpecialTerm(acc, term, SplitAt(term, ":"), queries,
                   FindSpecial(queries, SplitAt(term, ":")[1]))
  ELSE KeepTerm(acc, term, isArr, noRep)

RECURSIVE ExtractTerms(_, _, _, _, _, _)
ExtractTerms(acc, terms, isArr, inputs, queries, noRep) ==
  IF terms = <<>> THEN acc
  ELSE ExtractTerms(ExtractTerm(acc, Head(terms), MatchedInput(Head(terms), inputs),
                                isArr, inputs, queries, noRep),
                    Tail(terms), isArr, inputs, queries, noRep)

CharsOf(items) == [i \in 1..Len(items) |-> items[i].c]
AsChars(terms) == [i \in 1..Len(terms) |-> Chars(terms[i])]

\* if (remainingTerms.length === 0) chunks.splice(i, 1);
\* else chunks[i] = Array.isArray(group) ? remainingTerms : remainingTerms[0];
StoreChunk(acc, isArr) ==
  [acc EXCEPT
     !.chunks = IF acc.remainingTerms = <<>> THEN @
                ELSE IF isArr THEN <<Arr(AsChars(acc.remainingTerms))>> \o @
                ELSE <<Chars(acc.remainingTerms[1])>> \o @,
     !.remainingTerms = <<>>]

\* for (let i = chunks.length - 1; i >= 0; i--)
RECURSIVE ExtractChunks(_, _, _, _, _)
ExtractChunks(acc, chunks, inputs, queries, noRep) ==
  IF chunks = <<>> THEN acc
  ELSE ExtractChunks(
         StoreChunk(
           ExtractTerms(acc,
                        IF isArray(chunks[Len(chunks)])
                        THEN CharsOf(chunks[Len(chunks)].items)
                        ELSE <<chunks[Len(chunks)].c>>,
                        isArray(chunks[Len(chunks)]), inputs, queries, noRep),
           isArray(chunks[Len(chunks)])),
         SubSeq(chunks, 1, Len(chunks) - 1), inputs, queries, noRep)

extractSpecialsFromChunks(chunks, inputs, queries, noRep) ==
  ExtractChunks(ExtractionStart(inputs), chunks, inputs, queries, noRep)

\* What parseString does: it throws the error named by threw, or returns
\* { column, include, specials, ...outputGroups }; lists holds the auxiliary
\* lists by name, and a list named 'specials' takes the place of specials.
\* openParens is the parenthesis depth the tokenizer ended with.
ParseResult(threw, include, specials, lists, openParens) ==
  [threw |-> threw, column |-> defaultColumn, include |-> include,
   specials |-> specials, lists |-> lists, openParens |-> openParens]

Extracted(tokens, extraction) ==
  ParseResult("", extraction.chunks,
              IF "specials" \in DOMAIN extraction.outputGroups
              THEN extraction.outputGroups["specials"] ELSE extraction.specials,
              extraction.outputGroups, tokens.openParens)

Tokenized(tokens, inputs, queries, noRep) ==
  IF tokens.threw # ""
  THEN ParseResult(tokens.threw, <<>>, <<>>, << >>, tokens.openParens)
  ELSE Extracted(tokens, extractSpecialsFromChunks(tokens.chunks, inputs, queries, noRep))

\* parseString(input, strictMode, strictConfig)
parseString(input, strictMode, strictConfig, noRep, limit, inputs, queries) ==
  IF input.t # "chars" THEN ParseResult("TypeError", <<>>, <<>>, << >>, 0)
  ELSE Tokenized(Tokenize(Trim(CollapseWhitespace(input.c)), noRep, limit,
                          strictMode, Defaults(strictConfig)),
                 inputs, queries, noRep)

-----------------------------------------------------------------------------
(* Inputs.                                                                 *)

\* { column, value, ...more }
Leaf(column, value, moreKeys, moreVals) ==
  Obj(<<"column", "value">> \o moreKeys, <<Str(column), Str(value)>> \o moreVals)
\* { group, conditions }
Group(group, children) == Obj(<<"group", "conditions">>, <<group, Arr(children)>>)
\* { include, allowWildcards }
Criteria(include, allowWildcards) ==
  Obj(<<"include", "allowWildcards">>, <<Arr(include), allowWildcards>>)

StatusLeaf == Leaf("status", "active", <<>>, <<>>)
TypeLeaf == Leaf("type", "admin", <<"operator">>, <<Str("=")>>)
SoundexLeaf == Leaf("name", "rainbow", <<"operator">>, <<Str("soundex")>>)
LikeLeaf == Leaf("name", "dash", <<"operator", "lPos">>, <<Str("LIKE"), Str("right")>>)
NoColumnLeaf == Obj(<<"value">>, <<Str("active")>>)
EmptyObject == Obj(<<>>, <<>>)
StatusFlat == Obj(<<"status">>, <<Obj(<<"value">>, <<Str("active")>>)>>)

\* The trees one query build compiles with PuddySqlQuery.parseWhere
SessionGroups ==
  { StatusLeaf, TypeLeaf, SoundexLeaf, LikeLeaf, NoColumnLeaf, EmptyObject,
    StatusFlat, Str("status"),
    Group(Str("OR"), <<StatusLeaf, TypeLeaf>>),
    Group(Undef, <<StatusLeaf, Group(Str("or"), <<TypeLeaf, SoundexLeaf>>)>>),
    Group(Str("AND"), <<TypeLeaf, NoColumnLeaf>>),
    Group(Str("OR"), <<>>) }

TagA == Chars(<<"a">>)
TagB == Chars(<<"b">>)
NotTagA == Chars(<<"!", "a">>)
WildTag == Chars(<<"r", "*">>)

\* The tag criteria one query build compiles with PuddySqlTags.parseWhere
SessionCriteria ==
  { Criteria(<<>>, Undef),
    Criteria(<<TagA>>, Undef),
    Criteria(<<Arr(<<TagA, TagB>>)>>, Undef),
    Criteria(<<NotTagA, WildTag>>, Bool(TRUE)),
    Criteria(<<TagA, Arr(<<>>)>>, Bool(FALSE)),
    Criteria(<<Arr(<<>>)>>, Undef),
    Criteria(<<TagA, Arr(<<TagB, NotTagA>>), WildTag>>, Bool(TRUE)),
    Criteria(<<TagA, Num(5)>>, Undef),
    Obj(<<"column">>, <<Str("tags")>>) }

\* Leaf bodies: the fields of a condition besides its column
BodyOperators ==
  {Undef, Str("="), Str(">"), Str("lower"), Str("SOUNDEX"), Str("LIKE"), Str("ILIKE")}
BodyExtras ==
  { Obj(<<>>, <<>>),
    Obj(<<"valType">>, <<Str("LOWER")>>),
    Obj(<<"funcName">>, <<Null>>),
    Obj(<<"newOp">>, <<Str(">")>>),
    Obj(<<"lPos">>, <<Str("left")>>) }
Body(operator, extra) ==
  Obj((IF operator = Undef THEN <<>> ELSE <<"operator">>) \o <<"value">> \o extra.keys,
      (IF operator = Undef THEN <<>> ELSE <<operator>>) \o <<Str("active")>> \o extra.vals)
Bodies == {Body(operator, extra) : operator \in BodyOperators, extra \in BodyExtras}
Columns == {"status", "type"}

\* { column: c, ...body }
WithColumn(c, body) == Obj(<<"column">> \o body.keys, <<Str(c)>> \o body.vals)

WhereLeaves == {WithColumn(c, body) : c \in Columns, body \in Bodies}
WhereFlatMaps ==
  {Obj(<<c>>, <<body>>) : c \in Columns, body \in Bodies}
    \cup {Obj(<<"status", "type">>, <<b1, b2>>) :
            b1 \in {Body(Undef, Obj(<<>>, <<>>)), Body(Str("SOUNDEX"), Obj(<<>>, <<>>))},
            b2 \in {Body(Str("="), Obj(<<>>, <<>>)), Str("admin")}}
WhereOdd ==
  { Str("status"), Null, Num(1), Arr(<<>>), EmptyObject, NoColumnLeaf,
    Obj(<<"column", "value">>, <<Str(""), Str("active")>>),
    Obj(<<"operator", "value">>, <<Str("="), Str("active")>>) }

GroupValues ==
  {Undef, Num(1), Str("OR"), Str("or"), Str("Or"), Str("oR"), Str("AND"),
   Str("and"), Str("xor")}
TypeLeafPlain == Leaf("type", "admin", <<>>, <<>>)
Children ==
  { StatusLeaf, TypeLeaf, TypeLeafPlain, SoundexLeaf, StatusFlat, NoColumnLeaf,
    EmptyObject, Str("status"), Null,
    Group(Str("OR"), <<StatusLeaf, TypeLeaf>>),
    Group(Str("or"), <<SoundexLeaf, NoColumnLeaf>>) }
RECURSIVE SeqsUpTo(_, _)
SeqsUpTo(S, n) ==
  IF n = 0 THEN {<<>>}
  ELSE SeqsUpTo(S, n - 1)
         \cup {Append(q, x) : q \in {r \in SeqsUpTo(S, n - 1) : Len(r) = n - 1}, x \in S}
WhereGroups ==
  {Group(g, children) : g \in GroupValues, children \in SeqsUpTo(Children, MaxChildren)}

\* The trees given to one parseWhere call
WhereInputs == WhereLeaves \cup WhereFlatMaps \cup WhereOdd \cup WhereGroups

\* The caches a parseWhere call finds
WhereCaches ==
  {Cache(s, <<>>) : s \in 1..MaxStart} \cup {Cache(2, <<Str("first")>>)}

-----------------------------------------------------------------------------
(* State and operations.                                                   *)

\* A call on the tokenizer side of PuddySqlTags: threw names the error
\* thrown ("" when none), result is what the call returned; inputs and
\* queries are the registries the call found
TagsCall(op, arg, threw, result) ==
  [op |-> op, arg |-> arg, threw |-> threw, result |-> result,
   inputs |-> tagInputs, queries |-> specialQueries]

Call(op, arg, threw, text) ==
  [op |-> op, arg |-> arg, threw |-> threw, text |-> text,
   cache |-> pCache, conds |-> conditions, cvf |-> customValFunc]

\* A PuddySqlQuery and a PuddySqlTags after construction, before any call
InitObjects ==
  /\ conditions = Constructor.conditions
  /\ customValFunc = Constructor.customValFunc
  /\ wildcardA = <<"*">>
  /\ wildcardB = <<"?">>
  /\ useJsonEach = TRUE
  /\ frags = <<>>
  /\ clean = TRUE
  /\ calls = 0
  /\ regs = 0
  /\ noRepeat = FALSE
  /\ parseLimit = -1
  /\ tagInputs = DefaultTagInputs
  /\ specialQueries = <<>>
  /\ sqlEngine = ""
  /\ sqlMethods = ""
  /\ tables = << >>
  /\ tasks = << >>
  /\ newTables = 0
  /\ dbLog = << >>
  /\ lastInst = [op |-> "new"]

Init ==
  /\ InitObjects
  /\ pCache = Cache(1, <<>>)
  /\ startIndex = 1
  /\ last = Call("new", Undef, FALSE, <<>>)
  /\ lastTags = TagsCall("new", Undef, "", Undef)

\* A caller starts a query build: const pCache = { index: s, values: [] }
NewCache ==
  \E s \in 1..MaxStart :
    /\ pCache' = Cache(s, <<>>)
    /\ startIndex' = s
    /\ frags' = <<>>
    /\ clean' = TRUE
    /\ calls' = 0
    /\ last' = Call("new", Undef, FALSE, <<>>)
    /\ UNCHANGED <<conditions, customValFunc, wildcardA, wildcardB, useJsonEach, regs,
                   tokenizerVars,
                 instanceVars>>

\* The effect of a compile call on the query build
Compile(op, group, r) ==
  /\ calls < MaxCalls
  /\ pCache' = r.cache
  /\ frags' = IF r.threw THEN frags ELSE Append(frags, r.text)
  /\ clean' = (clean /\ ~r.threw)
  /\ calls' = calls + 1
  /\ last' = Call(op, group, r.threw, r.text)
  /\ UNCHANGED <<conditions, customValFunc, wildcardA, wildcardB, useJsonEach,
                 startIndex, regs,
                 tokenizerVars,
                 instanceVars>>

\* query.parseWhere(pCache, group)
QueryParseWhere ==
  \E group \in SessionGroups :
    Compile("Query.parseWhere", group,
            parseWhere(pCache, group, conditions, customValFunc))

\* tags.parseWhere(group, pCache)
TagsParseWhere ==
  \E group \in SessionCriteria :
    Compile("Tags.parseWhere", group,
            tagsParseWhere(group, pCache, wildcardA, wildcardB, useJsonEach))

Next == NewCache \/ QueryParseWhere \/ TagsParseWhere

Spec == Init /\ [][Next]_vars

\* One parseWhere call on a tree and a cache drawn from the input sets
InitWhere ==
  /\ InitObjects
  /\ \E group \in WhereInputs, pc \in WhereCaches :
       /\ pCache = pc
       /\ startIndex = pc.index - Len(pc.values)
       /\ last = Call("input", group, FALSE, <<>>)
       /\ lastTags = TagsCall("new", Undef, "", Undef)

WhereCompile ==
  /\ last.op = "input"
  /\ Compile("Query.parseWhere", last.arg,
             parseWhere(pCache, last.arg, conditions, customValFunc))

NextWhere == WhereCompile

SpecWhere == InitWhere /\ [][NextWhere]_vars

-----------------------------------------------------------------------------
(* Claims about one query build (Spec).                                    *)

CompileOps == {"Query.parseWhere", "Tags.parseWhere"}

\* C1: a successful compile call only appends to the cache: the values
\* stored before the call are still there, in place, and index has grown by
\* exactly the number of values appended; so on a cache created as
\* { index: s, values: [] } index = s + values.length after successful calls.
C1_CacheAppendOnly ==
  /\ (last.op \in CompileOps /\ ~last.threw) =>
       /\ Len(pCache.values) >= Len(last.cache.values)
       /\ SubSeq(pCache.values, 1, Len(last.cache.values)) = last.cache.values
       /\ pCache.index - last.cache.index
            = Len(pCache.values) - Len(last.cache.values)
  /\ clean => pCache.index = startIndex + Len(pCache.values)

\* C1 happens: on a cache started at an index above 1, a generic compile
\* that bound a value was followed by a tag compile that bound two more.
C1_Witness ==
  /\ clean /\ startIndex > 1 /\ calls = 2
  /\ last.op = "Tags.parseWhere" /\ ~last.threw
  /\ Len(last.cache.values) >= 1
  /\ last.cache.values[1].t = "string"
  /\ Len(pCache.values) = Len(last.cache.values) + 2

RECURSIVE Flatten(_)
Flatten(texts) == IF texts = <<>> THEN <<>> ELSE Head(texts) \o Flatten(Tail(texts))

IsPlaceholder(tok, max) == \E n \in 1..max : tok = Placeholder(n)
PlaceholderIndex(tok, max) == CHOOSE n \in 1..max : tok = Placeholder(n)

\* The indices of the well-formed placeholders of a text, left to right: a
\* placeholder token that does not directly follow a '$' character
RECURSIVE WellFormedPlaceholders(_, _, _)
WellFormedPlaceholders(toks, prev, max) ==
  IF toks = <<>> THEN <<>>
  ELSE (IF IsPlaceholder(Head(toks), max) /\ prev # "$"
        THEN <<PlaceholderIndex(Head(toks), max)>> ELSE <<>>)
       \o WellFormedPlaceholders(Tail(toks), Head(toks), max)

\* C2: on a cache created as { index: 1, values: [] }, after successful
\* compile calls of both compilers, the well-formed placeholders of the
\* returned fragments, in call order, are $1, $2, ..., $n with
\* n = values.length.
C2_PlaceholdersContiguous ==
  (clean /\ startIndex = 1) =>
    WellFormedPlaceholders(Flatten(frags), "", pCache.index)
      = [k \in 1..Len(pCache.values) |-> k]

\* C9: the tag criteria compiler, given an include list that is an empty
\* array, returns the text '1' and leaves the cache as it was.
C9_EmptyIncludeIsOne ==
  (last.op = "Tags.parseWhere" /\ Get(last.arg, "include") = Arr(<<>>)) =>
    /\ ~last.threw
    /\ last.text # <<>>
    /\ Render(last.text) = "1"
    /\ pCache = last.cache

\* C9 happens: an empty include list was compiled on a cache that already
\* holds a value.
C9_Witness ==
  /\ last.op = "Tags.parseWhere"
  /\ Get(last.arg, "include") = Arr(<<>>)
  /\ last.cache.values # <<>>
  /\ last.cache.index > 1

\* The number of tags an include entry binds
EntrySize(entry) == IF isArray(entry) THEN Len(entry.items) ELSE 1

\* The fragment of one tag whose placeholder is $n, under the criteria arg
FragmentAt(tag, n, arg) ==
  TagFragment(tag, Cache(n, <<>>),
              IF Get(arg, "allowWildcards").t = "boolean"
              THEN Get(arg, "allowWildcards").b ELSE FALSE,
              IF Falsy(Get(arg, "column")) THEN defaultColumn
              ELSE ToStr(Get(arg, "column")),
              IF Falsy(Get(arg, "valueName")) THEN ToStr(defaultValueName)
              ELSE ToStr(Get(arg, "valueName")),
              wildcardA, wildcardB, useJsonEach).text

\* One fragment per include entry, the first tag taking placeholder $n: a
\* bare entry gives its fragment, an OR-group its members' fragments joined
\* by ' OR ' in one pair of parentheses. With skipEmpty an OR-group without
\* members gives no fragment.
RECURSIVE EntryTexts(_, _, _, _)
EntryTexts(entries, n, arg, skipEmpty) ==
  IF entries = <<>> THEN <<>>
  ELSE (IF ~isArray(Head(entries))
        THEN <<FragmentAt(Head(entries), n, arg)>>
        ELSE IF skipEmpty /\ Head(entries).items = <<>> THEN <<>>
        ELSE << <<"(">>
                \o Join([j \in 1..Len(Head(entries).items) |->
                           FragmentAt(Head(entries).items[j], n + j - 1, arg)],
                        " OR ")
                \o <<")">> >>)
       \o EntryTexts(Tail(entries), n + EntrySize(Head(entries)), arg, skipEmpty)

RECURSIVE TagCount(_)
TagCount(entries) ==
  IF entries = <<>> THEN 0 ELSE EntrySize(Head(entries)) + TagCount(Tail(entries))

NonEmptyInclude(arg) ==
  isJsonObject(arg) /\ isArray(Get(arg, "include")) /\ Get(arg, "include").items # <<>>

\* C11 as stated: for a non-empty include list the tag criteria compiler
\* emits one fragment per top-level entry in list order (a bare entry one
\* [NOT] EXISTS fragment, an OR-group its members' fragments joined by
\* ' OR ' inside one pair of parentheses), all joined by ' AND '.
C11_OneFragmentPerEntry ==
  (last.op = "Tags.parseWhere" /\ ~last.threw /\ NonEmptyInclude(last.arg)) =>
    last.text
      = <<"(">>
        \o Join(EntryTexts(Get(last.arg, "include").items, last.cache.index,
                           last.arg, FALSE), " AND ")
        \o <<")">>

\* C11, amended: for a non-empty include list the tag criteria compiler
\* emits one fragment per top-level entry that is a bare tag or an OR-group
\* with at least one member, in list order, joined by ' AND ' inside one
\* pair of parentheses; an OR-group gives its members' fragments in member
\* order joined by ' OR ' inside one pair of parentheses; an OR-group
\* without members gives no fragment, and when no entry gives one the text
\* is '1'. Placeholders are allocated and values pushed in the same
\* left-to-right order: the group ['a','b'] on a fresh cache renders two
\* EXISTS fragments joined by OR using $1 and $2 with values ['a','b'].
C11_FragmentPerNonEmptyEntry ==
  (last.op = "Tags.parseWhere" /\ ~last.threw /\ NonEmptyInclude(last.arg)) =>
    /\ last.text
         = IF EntryTexts(Get(last.arg, "include").items, last.cache.index,
                         last.arg, TRUE) = <<>>
           THEN <<"1">>
           ELSE <<"(">>
                \o Join(EntryTexts(Get(last.arg, "include").items,
                                   last.cache.index, last.arg, TRUE), " AND ")
                \o <<")">>
    /\ pCache.index = last.cache.index + TagCount(Get(last.arg, "include").items)
    /\ Len(pCache.values)
         = Len(last.cache.values) + TagCount(Get(last.arg, "include").items)
    /\ (/\ last.arg = Criteria(<<Arr(<<TagA, TagB>>)>>, Undef)
        /\ last.cache = Cache(1, <<>>))
       => /\ Render(last.text)
              = "((EXISTS (SELECT 1 FROM json_array_elements_text(tags)"
                \o " WHERE value = $1) OR EXISTS (SELECT 1 FROM"
                \o " json_array_elements_text(tags) WHERE value = $2)))"
          /\ pCache.values = <<TagA, TagB>>

\* C11 happens: an include list with a bare tag, an OR-group of two and
\* another bare tag was compiled on a cache that already held a value.
C11_Witness ==
  /\ last.op = "Tags.parseWhere" /\ ~last.threw
  /\ last.arg = Criteria(<<TagA, Arr(<<TagB, NotTagA>>), WildTag>>, Bool(TRUE))
  /\ last.cache.values # <<>>
  /\ Len(pCache.values) = Len(last.cache.values) + 4

-----------------------------------------------------------------------------
(* Claims about one parseWhere call (SpecWhere).                           *)

IsGroup(node) == isJsonObject(node) /\ isArray(Get(node, "conditions"))

\* The children of a group compiled one after the other, each on the cache
\* the one before left
RECURSIVE ChildRuns(_, _)
ChildRuns(pc, items) ==
  IF items = <<>> THEN <<>>
  ELSE LET r == parseWhere(pc, Head(items), conditions, customValFunc)
       IN <<r>> \o ChildRuns(r.cache, Tail(items))

OrSpellings == {Str("OR"), Str("or"), Str("Or"), Str("oR")}

\* C3: a node with a conditions array compiles to the texts of its
\* children, in order, each in its own parentheses, joined by ' OR ' when
\* group is 'OR' in any letter case and by ' AND ' otherwise; the children
\* are compiled left to right on the same cache. OR over
\* {column:'status',value:'active'} and {column:'type',value:'admin'} on a
\* fresh cache gives "(status = $1) OR (type = $2)", values active, admin.
C3_GroupJoinsChildren ==
  (last.op = "Query.parseWhere" /\ IsGroup(last.arg) /\ ~last.threw) =>
    LET items == Get(last.arg, "conditions").items
        runs == ChildRuns(last.cache, items)
        sep == IF Get(last.arg, "group") \in OrSpellings THEN " OR " ELSE " AND "
    IN /\ last.text
            = Join([i \in 1..Len(items) |-> <<"(">> \o runs[i].text \o <<")">>], sep)
       /\ pCache = IF items = <<>> THEN last.cache ELSE runs[Len(items)].cache
       /\ (/\ last.arg = Group(Str("OR"), <<StatusLeaf, TypeLeafPlain>>)
           /\ last.cache = Cache(1, <<>>))
          => /\ Render(last.text) = "(status = $1) OR (type = $2)"
             /\ pCache.values = <<Str("active"), Str("admin")>>

\* C3 happens: a group spelled 'or' with two children was compiled.
C3_Witness ==
  /\ last.op = "Query.parseWhere" /\ ~last.threw
  /\ IsGroup(last.arg)
  /\ Get(last.arg, "group") = Str("or")
  /\ Len(Get(last.arg, "conditions").items) = 2
  /\ Len(pCache.values) = Len(last.cache.values) + 2

\* A legacy flat map: an object without conditions and column whose
\* entries are all objects
IsFlatMap(node) ==
  /\ isJsonObject(node) /\ ~IsGroup(node) /\ Falsy(Get(node, "column"))
  /\ node.keys # <<>>
  /\ \A i \in 1..Len(node.vals) : isJsonObject(node.vals[i])

\* { group: 'AND', conditions: [{ column: c1, ...b1 }, ...] }
FlatAsGroup(node) ==
  Group(Str("AND"), [i \in 1..Len(node.keys) |-> WithColumn(node.keys[i], node.vals[i])])

\* C7: a legacy flat map compiles like the AND group of the leaves
\* {column: ci, ...bi}: same text, same cache afterwards.
C7_FlatMapIsAndGroup ==
  (last.op = "Query.parseWhere" /\ IsFlatMap(last.arg)) =>
    LET e == parseWhere(last.cache, FlatAsGroup(last.arg), conditions, customValFunc)
    IN /\ last.threw = e.threw
       /\ last.text = e.text
       /\ pCache = e.cache

\* A leaf that is not a plain object, or that has no column
InvalidLeaf(node) ==
  \/ ~isJsonObject(node)
  \/ /\ ~IsGroup(node) /\ Falsy(Get(node, "column"))
     /\ \E i \in 1..Len(node.vals) : ~isJsonObject(node.vals[i])

\* An object without conditions and column that has an entry whose value
\* is not a plain object
MalformedEntry(node) ==
  /\ isJsonObject(node) /\ ~IsGroup(node) /\ Falsy(Get(node, "column"))
  /\ \E i \in 1..Len(node.vals) : ~isJsonObject(node.vals[i])

RECURSIVE ContainsInvalidLeaf(_)
ContainsInvalidLeaf(node) ==
  \/ InvalidLeaf(node)
  \/ /\ IsGroup(node)
     /\ \E i \in 1..Len(Get(node, "conditions").items) :
          ContainsInvalidLeaf(Get(node, "conditions").items[i])

RECURSIVE ContainsMalformedEntry(_)
ContainsMalformedEntry(node) ==
  \/ MalformedEntry(node)
  \/ /\ IsGroup(node)
     /\ \E i \in 1..Len(Get(node, "conditions").items) :
          ContainsMalformedEntry(Get(node, "conditions").items[i])

\* C8 as stated: a tree that contains a leaf that is not a plain object, or
\* a leaf without column, makes the compiler throw.
C8_InvalidLeafThrows ==
  (last.op = "Query.parseWhere" /\ ContainsInvalidLeaf(last.arg)) => last.threw

\* C8 as amended: the compiler throws exactly when the tree contains, at
\* the top or as a child of a group, an object without conditions and
\* column that has an entry whose value is not a plain object; a node that
\* is not a plain object, and an empty object, compile to the empty text and
\* bind nothing.
C8_MalformedEntryThrows ==
  (last.op = "Query.parseWhere") =>
    /\ last.threw <=> ContainsMalformedEntry(last.arg)
    /\ (~isJsonObject(last.arg) \/ last.arg = EmptyObject)
         => (~last.threw /\ last.text = <<>> /\ pCache = last.cache)

\* C8 happens: the second child of a group is a leaf without column, and
\* the compile threw after the first child had bound its value.
C8_Witness ==
  /\ last.op = "Query.parseWhere" /\ last.threw
  /\ IsGroup(last.arg)
  /\ Len(Get(last.arg, "conditions").items) = 2
  /\ Get(last.arg, "conditions").items[2] = NoColumnLeaf
  /\ Len(pCache.values) = Len(last.cache.values) + 1

-----------------------------------------------------------------------------
(* The registry in use (SpecRegistry): registrations on a constructed      *)
(* PuddySqlQuery, each followed by compiles of one leaf on a fresh cache.  *)

\* Arguments given to addCondition and addConditionV2
RegKeys == {Str(""), Num(1), Str("ilike"), Str("REGEXP"), Str("LOWER"), Str("toString")}
\* <<conditionHandler, valueHandler>>
RegHandlers ==
  { <<Str("~*"), Null>>,
    <<Obj(<<"operator">>, <<Str("ILIKE")>>), Func([k |-> "wrap", funcName |-> "F"])>>,
    <<Func([k |-> "const",
            result |-> Obj(<<"operator", "column">>, <<Str("~"), Str("lower(name)")>>)]),
      Null>>,
    <<Obj(<<"value">>, <<Str("x")>>), Null>>,
    <<Num(1), Null>>,
    <<Str("~*"), Str("F")>> }
\* <<editParamByDefault, operator>>
RegV2Params ==
  { <<Bool(TRUE), Str(">")>>, <<Bool(FALSE), Str(">")>>, <<Str("yes"), Str(">")>>,
    <<Bool(TRUE), Str("")>> }

\* The leaves compiled against the registry
RegLeafOperators ==
  {Str("ilike"), Str("ILIKE"), Str("regexp"), Str("REGEXP"), Str("lower"),
   Str("LOWER"), Str("~~")}
RegLeaves ==
  {Leaf("name", "x", <<"operator">>, <<o>>) : o \in RegLeafOperators}
    \cup {Leaf("name", "x", <<"operator", "valType">>, <<o, Str("LOWER")>>) :
            o \in RegLeafOperators}

\* The effect of a registration call on the registry
Register(op, arg, r) ==
  /\ regs < MaxRegs
  /\ conditions' = r.conditions
  /\ customValFunc' = r.customValFunc
  /\ regs' = regs + 1
  /\ last' = Call(op, arg, r.threw, <<>>)
  /\ UNCHANGED <<wildcardA, wildcardB, useJsonEach, pCache, startIndex, frags,
                 clean, calls,
                 tokenizerVars,
                 instanceVars>>

\* query.addCondition(key, conditionHandler, valueHandler)
RegAddCondition ==
  \E key \in RegKeys, handlers \in RegHandlers :
    Register("addCondition",
             Obj(<<"key", "conditionHandler", "valueHandler">>,
                 <<key, handlers[1], handlers[2]>>),
             addCondition(conditions, customValFunc, key, handlers[1], handlers[2]))

\* query.addConditionV2(funcName, editParamByDefault, operator)
RegAddConditionV2 ==
  \E funcName \in RegKeys, params \in RegV2Params :
    Register("addConditionV2",
             Obj(<<"key", "editParamByDefault", "operator">>,
                 <<funcName, params[1], params[2]>>),
             addConditionV2(conditions, customValFunc, funcName, params[1], params[2]))

\* The effect of a compile call on a cache made for it
CompileFresh(op, group, pc, r) ==
  /\ pCache' = r.cache
  /\ startIndex' = pc.index
  /\ frags' = IF r.threw THEN <<>> ELSE <<r.text>>
  /\ clean' = ~r.threw
  /\ calls' = 1
  /\ last' = [Call(op, group, r.threw, r.text) EXCEPT !.cache = pc]
  /\ UNCHANGED <<conditions, customValFunc, wildcardA, wildcardB, useJsonEach, regs,
                 tokenizerVars,
                 instanceVars>>

\* const pCache = { index: 1, values: [] }; query.parseWhere(pCache, leaf)
RegCompile ==
  \E leaf \in RegLeaves :
    CompileFresh("Query.parseWhere", leaf, Cache(1, <<>>),
                 parseWhere(Cache(1, <<>>), leaf, conditions, customValFunc))

NextRegistry == RegAddCondition \/ RegAddConditionV2 \/ RegCompile

SpecRegistry == Init /\ [][NextRegistry]_vars

-----------------------------------------------------------------------------
(* Claims about the registry (SpecRegistry).                               *)

\* Two strings are equal up to letter case
SameLetters(a, b) == toUpperCase(a) = toUpperCase(b)

\* The keys of the registry that equal an operator string up to letter case
KeysFor(conds, operator) == {K \in DOMAIN conds : SameLetters(K, operator)}

\* C4: a leaf whose operator is not a registered key compiles without a
\* throw to `column operator $index`: the leaf's own operator string is the
\* SQL operator, and the placeholder is bare.
C4_UnregisteredOperatorVerbatim ==
  (/\ last.op = "Query.parseWhere"
   /\ Get(last.arg, "operator").t = "string"
   /\ KeysFor(last.conds, Get(last.arg, "operator").s) = {}) =>
    /\ ~last.threw
    /\ last.text = << Get(last.arg, "column").s, " ", Get(last.arg, "operator").s,
                      " ", Placeholder(last.cache.index) >>

\* What a leaf compiles to when it is resolved through the resolver stored
\* under key K
ResolvedThrough(K, leaf, pc, conds, cvf) ==
  LET result == Resolve(conds[K], leaf)
      operator == IF Get(result, "operator").t = "string"
                  THEN Get(result, "operator").s ELSE "="
      col == IF Get(result, "column").t = "string"
             THEN Get(result, "column").s ELSE Get(leaf, "column").s
      valType == IF Get(result, "valType").t = "string"
                 THEN Get(result, "valType") ELSE Get(leaf, "valType")
      transform == IF valType.t = "string" THEN Lookup(cvf, valType.s) ELSE Undef
  IN <<col, " ", operator, " ">>
       \o (IF transform.t = "function"
           THEN ApplyValFunc(transform, <<Placeholder(pc.index)>>)
           ELSE <<Placeholder(pc.index)>>)

\* C5: operator lookup is case-insensitive: a leaf whose operator equals a
\* registered key K up to letter case is resolved through K's resolver.
C5_LookupIgnoresCase ==
  (last.op = "Query.parseWhere" /\ Get(last.arg, "operator").t = "string") =>
    \A K \in KeysFor(last.conds, Get(last.arg, "operator").s) :
      /\ ~last.threw
      /\ last.text
           = ResolvedThrough(K, last.arg, last.cache, last.conds, last.cvf)

RegistrationOps == {"addCondition", "addConditionV2"}

\* The arguments of a registration call that the code rejects by their form
MalformedRegistration(op, arg) ==
  \/ Get(arg, "key").t # "string"
  \/ Get(arg, "key").s = ""
  \/ /\ op = "addCondition"
     /\ \/ Get(arg, "conditionHandler").t \notin {"string", "object", "function"}
        \/ /\ Get(arg, "conditionHandler").t = "object"
           /\ Get(Get(arg, "conditionHandler"), "operator").t # "string"
        \/ Get(arg, "valueHandler").t \notin {"null", "function"}

\* C6: the registry is write-once per key. A registration call with a key
\* already present in the condition map or in the value-transform map
\* throws; so does one with an empty key, a malformed handler or a
\* non-function value handler; a call that throws leaves both maps as they
\* were; and no call removes a key or changes what is stored under it, so a
\* key keeps the resolver of its first successful registration.
C6_RegistryWriteOnce ==
  (last.op \in RegistrationOps) =>
    LET key == Get(last.arg, "key")
        present == key.t = "string"
                   /\ (key.s \in DOMAIN last.conds \/ key.s \in DOMAIN last.cvf)
    IN /\ present => last.threw
       /\ MalformedRegistration(last.op, last.arg) => last.threw
       /\ last.threw => (conditions = last.conds /\ customValFunc = last.cvf)
       /\ \A k \in DOMAIN last.conds :
            k \in DOMAIN conditions /\ conditions[k] = last.conds[k]
       /\ \A k \in DOMAIN last.cvf :
            k \in DOMAIN customValFunc /\ customValFunc[k] = last.cvf[k]
       /\ ~last.threw =>
            /\ DOMAIN conditions = DOMAIN last.conds \cup {key.s}
            /\ DOMAIN customValFunc \subseteq DOMAIN last.cvf \cup {key.s}

\* C6 happens: a key registered by an earlier call of this session is
\* registered again with a well-formed handler, and the call throws.
C6_Witness ==
  /\ last.op = "addCondition" /\ last.threw
  /\ regs = 2
  /\ Get(last.arg, "key") = Str("ilike")
  /\ "ilike" \in DOMAIN last.conds
  /\ Get(last.arg, "conditionHandler") = Str("~*")
  /\ Get(last.arg, "valueHandler") = Null
  /\ last.conds["ilike"] # Func([k |-> "const",
                                 result |-> Obj(<<"operator">>, <<Str("~*")>>)])

-----------------------------------------------------------------------------
(* A configured PuddySqlTags compiling one tag (SpecTags): setter calls,   *)
(* then one parseWhere call with a single tag on the fresh cache.          *)

\* The characters of the tags
TagChars == {"a", "!", "*", "?", "%"}
TagStrings == SeqsUpTo(TagChars, MaxTagLen)
TagCriteria ==
  {Criteria(<<Chars(t)>>, allow) : t \in TagStrings, allow \in {Bool(TRUE), Bool(FALSE)}}

\* Arguments given to the setters
WildcardNames == {"wildcardA", "wildcardB", "wildcardC"}
WildcardValues == {Chars(<<"*">>), Chars(<<"?">>), Chars(<<"%">>), Null}
UseJsonEachValues == {Bool(TRUE), Bool(FALSE), Null}

\* tags.setWildcard(where, value)
SetWildcard ==
  /\ calls = 0
  /\ \E where \in WildcardNames, value \in WildcardValues :
       LET threw == where \notin {"wildcardA", "wildcardB"} \/ ~isString(value)
       IN /\ wildcardA' = IF ~threw /\ where = "wildcardA" THEN value.c ELSE wildcardA
          /\ wildcardB' = IF ~threw /\ where = "wildcardB" THEN value.c ELSE wildcardB
          /\ last' = Call("setWildcard",
                          Obj(<<"where", "value">>, <<Str(where), value>>),
                          threw, <<>>)
  /\ UNCHANGED <<conditions, customValFunc, useJsonEach, pCache, startIndex,
                 frags, clean, calls, regs,
                 tokenizerVars,
                 instanceVars>>

\* tags.setUseJsonEach(value)
SetUseJsonEach ==
  /\ calls = 0
  /\ \E value \in UseJsonEachValues :
       LET threw == value.t # "boolean"
       IN /\ useJsonEach' = IF threw THEN useJsonEach ELSE value.b
          /\ last' = Call("setUseJsonEach", Obj(<<"value">>, <<value>>), threw, <<>>)
  /\ UNCHANGED <<conditions, customValFunc, wildcardA, wildcardB, pCache,
                 startIndex, frags, clean, calls, regs,
                 tokenizerVars,
                 instanceVars>>

\* tags.parseWhere({ include: [tag], allowWildcards }, pCache)
TagCompile ==
  /\ calls = 0
  /\ \E group \in TagCriteria :
       CompileFresh("Tags.parseWhere", group, pCache,
                    tagsParseWhere(group, pCache, wildcardA, wildcardB, useJsonEach))

NextTags == SetWildcard \/ SetUseJsonEach \/ TagCompile

SpecTags == Init /\ [][NextTags]_vars

-----------------------------------------------------------------------------
(* Claims about one tag (SpecTags).                                        *)

\* The literal '%' and '_' of a string, each behind a backslash
Escaped(c) ==
  Flatten([i \in 1..Len(c) |-> IF c[i] \in {"%", "_"} THEN <<"\\", c[i]>> ELSE <<c[i]>>])

\* Every occurrence of a one-character token replaced by a character
Substituted(c, token, to) ==
  [i \in 1..Len(c) |-> IF <<c[i]>> = token THEN to ELSE c[i]]

\* The tokens of a one-tag fragment: EXISTS or NOT EXISTS, the comparison,
\* the placeholder
FragmentFunc(text) == text[2]
FragmentComparison(text) == IF useJsonEach THEN text[6] ELSE text[8]
FragmentParam(text) == IF useJsonEach THEN text[8] ELSE text[10]

\* C10: for a tag string t, the fragment uses NOT EXISTS iff t starts with
\* '!', otherwise EXISTS; the bound value is t without that one leading '!';
\* iff wildcards are allowed and the stripped tag contains wildcardA or
\* wildcardB, the bound value has its '%' and '_' escaped, every wildcardA
\* replaced by '%' and every wildcardB by '_', and the comparison is LIKE;
\* otherwise the value is bound as it is and the comparison is '='.
C10_TagFragment ==
  (last.op = "Tags.parseWhere") =>
    LET t == Get(last.arg, "include").items[1].c
        not == t # <<>> /\ t[1] = "!"
        stripped == IF not THEN SubSeq(t, 2, Len(t)) ELSE t
        allowed == Get(last.arg, "allowWildcards") = Bool(TRUE)
        contains == \E i \in 1..Len(stripped) :
                      <<stripped[i]>> \in {wildcardA, wildcardB}
        pattern == Substituted(Substituted(Escaped(stripped), wildcardA, "%"),
                               wildcardB, "_")
    IN /\ ~last.threw
       /\ FragmentFunc(last.text) = IF not THEN "NOT EXISTS" ELSE "EXISTS"
       /\ FragmentParam(last.text) = Placeholder(last.cache.index)
       /\ pCache.index = last.cache.index + 1
       /\ IF allowed /\ contains
          THEN /\ FragmentComparison(last.text) = "LIKE"
               /\ pCache.values = Append(last.cache.values, Chars(pattern))
          ELSE /\ FragmentComparison(last.text) = "="
               /\ pCache.values = Append(last.cache.values, Chars(stripped))

\* C10 happens: with the wildcards '*' and '?', the tag '!%*' compiled
\* with wildcards allowed is bound as '\%%' under NOT EXISTS and LIKE.
C10_Witness ==
  /\ last.op = "Tags.parseWhere" /\ ~last.threw
  /\ wildcardA = <<"*">> /\ wildcardB = <<"?">>
  /\ last.arg = Criteria(<<Chars(<<"!", "%", "*">>)>>, Bool(TRUE))
  /\ pCache.values = <<Chars(<<"\\", "%", "%">>)>>
  /\ FragmentFunc(last.text) = "NOT EXISTS"
  /\ FragmentComparison(last.text) = "LIKE"

-----------------------------------------------------------------------------
(* One parseString call on a PuddySqlTags with its default settings        *)
(* (SpecParse): the input is a list of terms joined by keywords, or a      *)
(* quoted text between other text.                                         *)

MaxTerms == 3

\* Terms without white space, quote, parenthesis, colon or modifier symbol
PlainTerms == {<<"a">>, <<"o", "r", "a">>, <<"b", "a", "n", "d">>}
\* Terms that end with 'or' or begin with 'and'
KeywordTerms == {<<"n", "o", "r">>, <<"a", "n", "d", "y">>}
SepAnd == <<" ", "A", "N", "D", " ">>
SepOr == <<" ", "O", "R", " ">>
Seps == {SepAnd, SepOr}

\* terms[1] seps[1] terms[2] ... terms[n]
RECURSIVE Interleave(_, _)
Interleave(terms, seps) ==
  IF Len(terms) = 1 THEN terms[1]
  ELSE terms[1] \o seps[1] \o Interleave(Tail(terms), Tail(seps))

ListInput(terms, seps, parens) ==
  [family |-> "list", terms |-> terms, seps |-> seps, parens |-> parens,
   text |-> IF parens THEN <<"(">> \o Interleave(terms, seps) \o <<")">>
            ELSE Interleave(terms, seps)]

ListInputs ==
  UNION {{ListInput(terms, seps, parens) :
            seps \in [1..(Len(terms) - 1) -> Seps], parens \in BOOLEAN} :
         terms \in SeqsUpTo(PlainTerms \cup KeywordTerms, MaxTerms) \ {<<>>}}

OtherQuote(q) == IF q = "'" THEN "\"" ELSE "'"
\* Texts put between quotes; q is the quote character that opens them
QuotedBodies(q) ==
  { <<"a", " ", "A", "N", "D", " ", "b">>, <<"a", " ", "O", "R", " ", "b">>,
    <<"(", "a">>, <<"a", ")">>, <<"a", OtherQuote(q), "b">>, <<"a">> }
QuotedPrefixes ==
  { <<>>, <<"x">>, <<"x", " ", "A", "N", "D", " ">>, <<"(", "x", " ", "O", "R", " ">> }
QuotedSuffixes ==
  { <<>>, <<"y">>, <<" ", "A", "N", "D", " ", "y">>, <<")">> }

QuotedInput(prefix, q, body, suffix) ==
  [family |-> "quoted", prefix |-> prefix, quote |-> q, body |-> body,
   suffix |-> suffix, text |-> prefix \o <<q>> \o body \o <<q>> \o suffix]

QuotedInputs ==
  UNION {{QuotedInput(prefix, q, body, suffix) :
            prefix \in QuotedPrefixes, body \in QuotedBodies(q),
            suffix \in QuotedSuffixes} : q \in QuoteChars}

ParseInputs == ListInputs \cup QuotedInputs

\* A PuddySqlTags after construction and the input of its parseString call
InitTokenizer(inputs) ==
  /\ InitObjects
  /\ pCache = Cache(1, <<>>)
  /\ startIndex = 1
  /\ last = Call("new", Undef, FALSE, <<>>)
  /\ \E input \in inputs : lastTags = TagsCall("input", input, "", Undef)

ParseArgs(input, strictMode, strictConfig) ==
  [input |-> input, strictMode |-> strictMode, strictConfig |-> strictConfig]

\* tags.parseString(input, strictMode, strictConfig) with outcome r
ParseCall(input, strictMode, strictConfig, r) ==
  /\ lastTags' = TagsCall("parseString", ParseArgs(input, strictMode, strictConfig),
                          r.threw, r)
  /\ UNCHANGED <<conditions, customValFunc, wildcardA, wildcardB, useJsonEach,
                 pCache, startIndex, frags, clean, calls, regs, last,
                 noRepeat, parseLimit, tagInputs, specialQueries,
                 instanceVars>>

\* tags.parseString(input) and tags.parseString(input, true)
ParseDefault ==
  /\ lastTags.op = "input"
  /\ \E strictMode \in BOOLEAN :
       ParseCall(lastTags.arg, strictMode, << >>,
                 parseString(Chars(lastTags.arg.text), strictMode, << >>, noRepeat,
                             parseLimit, tagInputs, specialQueries))

InitParse == InitTokenizer(ParseInputs)

NextParse == ParseDefault

SpecParse == InitParse /\ [][NextParse]_vars

-----------------------------------------------------------------------------
(* Claims about one parseString call with default settings (SpecParse).    *)

BeginsWith(c, pat) == Len(c) >= Len(pat) /\ SubSeq(c, 1, Len(pat)) = pat
EndsWith(c, pat) ==
  Len(c) >= Len(pat) /\ SubSeq(c, Len(c) - Len(pat) + 1, Len(c)) = pat

ModifierSymbols == {tagInputs[k].symbol : k \in DOMAIN tagInputs}

\* A non-empty term without white space, quote, parenthesis, colon or
\* registered modifier symbol that, in any letter case, neither begins with
\* 'and' nor ends with 'or'
IsPlainTerm(term) ==
  /\ term # <<>>
  /\ \A i \in 1..Len(term) :
       term[i] \notin Whitespace \cup QuoteChars \cup {"(", ")", ":"}
                       \cup ModifierSymbols
  /\ ~BeginsWith(UpperChars(term), <<"A", "N", "D">>)
  /\ ~EndsWith(UpperChars(term), <<"O", "R">>)

PlainList(input) ==
  /\ input.family = "list"
  /\ \A i \in 1..Len(input.terms) : IsPlainTerm(input.terms[i])

AllSeps(input, sep) == \A i \in 1..Len(input.seps) : input.seps[i] = sep

\* A chunk of the given terms: the bare term, or the array of the terms
ChunkOf(terms) == IF Len(terms) = 1 THEN Chars(terms[1]) ELSE Arr(AsChars(terms))

\* The chunks of a list of terms: one per run of terms between two ANDs
RECURSIVE Segments(_, _, _)
Segments(terms, seps, run) ==
  IF Len(terms) = 1 THEN <<ChunkOf(Append(run, terms[1]))>>
  ELSE IF seps[1] = SepAnd
  THEN <<ChunkOf(Append(run, terms[1]))>> \o Segments(Tail(terms), Tail(seps), <<>>)
  ELSE Segments(Tail(terms), Tail(seps), Append(run, terms[1]))

\* C12: for plain terms t1..tn, parseString of the terms joined by ' AND '
\* (default settings, no registered specials) returns include = [t1..tn] as
\* bare strings in input order and specials = []; AND ends the current
\* chunk inside parentheses too.
C12_AndSplitsTerms ==
  (/\ lastTags.op = "parseString"
   /\ PlainList(lastTags.arg.input)
   /\ AllSeps(lastTags.arg.input, SepAnd)) =>
    /\ lastTags.threw = ""
    /\ lastTags.result.include = AsChars(lastTags.arg.input.terms)
    /\ lastTags.result.specials = <<>>

\* C12 happens: three plain terms joined by ' AND ' inside parentheses were
\* parsed into three chunks.
C12_Witness ==
  /\ lastTags.op = "parseString"
  /\ PlainList(lastTags.arg.input)
  /\ AllSeps(lastTags.arg.input, SepAnd)
  /\ lastTags.arg.input.parens
  /\ Len(lastTags.arg.input.terms) = 3
  /\ <<"b", "a", "n", "d">> = lastTags.arg.input.terms[2]
  /\ Len(lastTags.result.include) = 3

SubstituteTerm(chunk, body) == Chars(ReplaceAll(chunk.c, <<"z">>, body))
SubstituteChunks(chunks, body) ==
  [i \in 1..Len(chunks) |->
     IF isArray(chunks[i])
     THEN Arr([j \in 1..Len(chunks[i].items) |->
                 SubstituteTerm(chunks[i].items[j], body)])
     ELSE SubstituteTerm(chunks[i], body)]

\* The call of lastTags with the character 'z' in place of the quoted segment
Unquoted(call) ==
  parseString(Chars(call.arg.input.prefix \o <<"z">> \o call.arg.input.suffix),
              call.arg.strictMode, call.arg.strictConfig, noRepeat, parseLimit,
              tagInputs, specialQueries)

\* C14: inside a quoted segment the tokenizer interprets nothing: AND, OR,
\* parentheses and the other quote character are copied into the current
\* term and the segment ends only at the next occurrence of the quote
\* character that opened it; a quoted text is part of a single term, like
\* one ordinary character in its place, and never changes the parenthesis
\* depth.
C14_QuotesCopyVerbatim ==
  (lastTags.op = "parseString" /\ lastTags.arg.input.family = "quoted") =>
    /\ lastTags.threw = Unquoted(lastTags).threw
    /\ lastTags.result.openParens = Unquoted(lastTags).openParens
    /\ lastTags.result.include
         = SubstituteChunks(Unquoted(lastTags).include, lastTags.arg.input.body)
    /\ (lastTags.arg.input.prefix = <<>> /\ lastTags.arg.input.suffix = <<>>)
         => /\ lastTags.threw = ""
            /\ lastTags.result.include = <<Chars(lastTags.arg.input.body)>>
            /\ lastTags.result.openParens = 0

\* C14 happens: a strict call parsed a quoted text holding ' AND ', and one
\* holding '(', after another term, each into one term of its own.
C14_Witness ==
  /\ lastTags.op = "parseString"
  /\ lastTags.arg.input.family = "quoted"
  /\ lastTags.arg.strictMode
  /\ lastTags.arg.input.prefix = <<"x", " ", "A", "N", "D", " ">>
  /\ lastTags.arg.input.suffix = <<>>
  /\ lastTags.arg.input.body \in {<<"(", "a">>, <<"a", " ", "A", "N", "D", " ", "b">>}
  /\ lastTags.threw = ""
  /\ lastTags.result.include = <<Chars(<<"x">>), Chars(lastTags.arg.input.body)>>

-----------------------------------------------------------------------------
(* A parse limit, then one parseString call in strict or non-strict mode   *)
(* with any of the strict flags switched off (SpecStrict).                 *)

MaxPieces == 3

\* The inputs are built from these pieces
StrictPieces ==
  {<<"a">>, <<" ">>, <<"(">>, <<")">>, <<"\"">>, <<" ", "A", "N", "D", " ">>}

PiecesInput(pieces) == [family |-> "pieces", pieces |-> pieces, text |-> Flatten(pieces)]
StrictInputs == {PiecesInput(pieces) : pieces \in SeqsUpTo(StrictPieces, MaxPieces)}

\* strictConfig objects: the flags of K set to false, the others absent
StrictConfigs == {[k \in K |-> FALSE] : K \in SUBSET StrictFlags}

ParseLimitValues == {Num(0), Num(1), Str("1")}

\* tags.setParseLimit(value), as the first call on the object
SetParseLimit ==
  /\ lastTags.op = "new"
  /\ regs < MaxRegs
  /\ \E value \in ParseLimitValues :
       /\ parseLimit' = IF value.t = "number" THEN value.n ELSE parseLimit
       /\ lastTags' = TagsCall("setParseLimit", value,
                               IF value.t = "number" THEN "" ELSE "Error", Undef)
  /\ regs' = regs + 1
  /\ UNCHANGED <<conditions, customValFunc, wildcardA, wildcardB, useJsonEach,
                 pCache, startIndex, frags, clean, calls, last,
                 noRepeat, tagInputs, specialQueries,
                 instanceVars>>

\* tags.parseString(input, strictMode, strictConfig), once
ParseStrict ==
  /\ lastTags.op # "parseString"
  /\ \E input \in StrictInputs, strictMode \in BOOLEAN, strictConfig \in StrictConfigs :
       ParseCall(input, strictMode, strictConfig,
                 parseString(Chars(input.text), strictMode, strictConfig, noRepeat,
                             parseLimit, tagInputs, specialQueries))

NextStrict == SetParseLimit \/ ParseStrict

SpecStrict == Init /\ [][NextStrict]_vars

-----------------------------------------------------------------------------
(* Claims about strict mode (SpecStrict).                                  *)

\* The quote that is open, the parenthesis depth and whether a ')' came
\* without an earlier unmatched '(', after reading c outside quotes
RECURSIVE QuotesAndParens(_, _, _, _)
QuotesAndParens(c, q, depth, bad) ==
  IF c = <<>> THEN [quote |-> q, depth |-> depth, bad |-> bad]
  ELSE IF q # ""
  THEN QuotesAndParens(Tail(c), IF Head(c) = q THEN "" ELSE q, depth, bad)
  ELSE IF Head(c) \in QuoteChars THEN QuotesAndParens(Tail(c), Head(c), depth, bad)
  ELSE IF Head(c) = "(" THEN QuotesAndParens(Tail(c), q, depth + 1, bad)
  ELSE IF Head(c) = ")"
  THEN QuotesAndParens(Tail(c), q, depth - 1, bad \/ depth <= 0)
  ELSE QuotesAndParens(Tail(c), q, depth, bad)

\* The terms the tokenizer accepts from a text when there is no limit
AcceptedTerms(text) ==
  Tokenize(Trim(CollapseWhitespace(text)), noRepeat, -1, FALSE,
           Defaults(<< >>)).tagCount

\* The four conditions strict mode rejects
Violates(flag, text) ==
  CASE flag = "emptyInput" -> Trim(CollapseWhitespace(text)) = <<>>
    [] flag = "quoteChar" -> QuotesAndParens(text, "", 0, FALSE).quote # ""
    [] flag = "openParens" ->
         \/ QuotesAndParens(text, "", 0, FALSE).bad
         \/ QuotesAndParens(text, "", 0, FALSE).depth > 0
    [] flag = "parseLimit" -> parseLimit >= 0 /\ AcceptedTerms(text) > parseLimit

\* C15: in strict mode with the default configuration parseString returns
\* a result only if the input is non-empty after trimming, every opened
\* quote is closed, parentheses outside quotes are balanced and the number
\* of accepted terms does not exceed the parse limit; each violation raises
\* its own error; a strictConfig flag switched off suppresses exactly that
\* error and no other; with strictMode false none of the four errors is
\* raised for any input string.
C15_StrictErrors ==
  lastTags.op = "parseString" =>
    /\ lastTags.arg.strictMode =>
         /\ lastTags.threw = ""
              <=> \A flag \in StrictFlags \ DOMAIN lastTags.arg.strictConfig :
                    ~Violates(flag, lastTags.arg.input.text)
         /\ lastTags.threw # ""
              => /\ lastTags.threw \in StrictFlags \ DOMAIN lastTags.arg.strictConfig
                 /\ Violates(lastTags.threw, lastTags.arg.input.text)
    /\ ~lastTags.arg.strictMode => lastTags.threw = ""

\* C15 happens: with a parse limit set and the quote check switched off, a
\* strict call on a text with an open parenthesis and an unclosed quote
\* raised the parenthesis error.
C15_Witness ==
  /\ lastTags.op = "parseString"
  /\ lastTags.arg.strictMode
  /\ DOMAIN lastTags.arg.strictConfig = {"quoteChar"}
  /\ parseLimit = 1
  /\ Violates("quoteChar", lastTags.arg.input.text)
  /\ lastTags.threw = "openParens"

-----------------------------------------------------------------------------
(* A configured PuddySqlTags parsing one text with modifiers and specials  *)
(* (SpecExtract): setter calls, then one parseString call.                 *)

MaxItems == 2
MaxRaw == 2

\* Terms: plain, with a modifier, with an unregistered key, with the key
\* the special queries of ExtractQueries have as title
Source == <<"s", "o", "u", "r", "c", "e">>
ExtractItems ==
  {<<"a">>, <<"a", "^", "2">>, <<"k", ":", "x">>, Source \o <<":", "x">>}

InParens(c) == <<"(">> \o c \o <<")">>

\* The items joined by keywords: as they are ("plain"), each item in
\* parentheses of its own ("each"), or all in one pair ("all")
ItemsInput(items, seps, form) ==
  [family |-> "items", items |-> items, seps |-> seps, form |-> form,
   text |-> CASE form = "plain" -> Interleave(items, seps)
              [] form = "each" ->
                   Interleave([i \in 1..Len(items) |-> InParens(items[i])], seps)
              [] form = "all" -> InParens(Interleave(items, seps))]

ItemsInputs ==
  UNION {{ItemsInput(items, seps, form) :
            seps \in [1..(Len(items) - 1) -> Seps], form \in {"plain", "each", "all"}} :
         items \in SeqsUpTo(ExtractItems, MaxItems) \ {<<>>}}

\* One term base + symbol + raw
ModifierBases == {<<>>, <<"a">>, <<"a", "p", "p", "l", "e", "j", "a", "c", "k">>}
RawChars == {"2", "!", "x"}
ModifierInput(base, symbol, raw) ==
  [family |-> "modifier", base |-> base, symbol |-> symbol, raw |-> raw,
   text |-> base \o <<symbol>> \o raw]
ModifierInputs ==
  {ModifierInput(base, symbol, raw) :
     base \in ModifierBases, symbol \in {"^", "~"}, raw \in SeqsUpTo(RawChars, MaxRaw)}

\* One term key + ':' + rest
SpecialRests ==
  {<<>>, <<"x">>, <<"x", ":", "y">>, <<"p", "o", "n", "y", "b", "o", "o", "r", "u">>}
SpecialInput(key, rest) ==
  [family |-> "special", key |-> key, rest |-> rest, text |-> key \o <<":">> \o rest]
SpecialInputs ==
  {SpecialInput(key, rest) : key \in {Source, <<"k">>}, rest \in SpecialRests}

ExtractInputs == ItemsInputs \cup ModifierInputs \cup SpecialInputs

\* tags.setCanRepeat(value)
SetCanRepeat ==
  /\ lastTags.op # "parseString"
  /\ regs < MaxRegs
  /\ \E value \in {Bool(TRUE), Bool(FALSE), Null} :
       /\ noRepeat' = IF value.t = "boolean" THEN ~value.b ELSE noRepeat
       /\ lastTags' = TagsCall("setCanRepeat", value,
                               IF value.t = "boolean" THEN "" ELSE "Error", Undef)
  /\ regs' = regs + 1
  /\ UNCHANGED <<conditions, customValFunc, wildcardA, wildcardB, useJsonEach,
                 pCache, startIndex, frags, clean, calls, last,
                 parseLimit, tagInputs, specialQueries,
                 instanceVars>>

\* if (!isJsonObject(config) || typeof config.title !== 'string') throw
InvalidSpecialQuery(config) == config.t # "object" \/ config.title.t # "chars"

\* addSpecialQuery(config): #specialQueries after the call
addSpecialQuery(queries, config) ==
  IF InvalidSpecialQuery(config) THEN queries ELSE Append(queries, config)

\* tags.addSpecialQuery(config) for a config of the given set
AddSpecialQuery(configs) ==
  /\ lastTags.op # "parseString"
  /\ regs < MaxRegs
  /\ \E config \in configs :
       /\ specialQueries' = addSpecialQuery(specialQueries, config)
       /\ lastTags' = TagsCall("addSpecialQuery", config,
                               IF InvalidSpecialQuery(config) THEN "Error" ELSE "",
                               Undef)
  /\ regs' = regs + 1
  /\ UNCHANGED <<conditions, customValFunc, wildcardA, wildcardB, useJsonEach,
                 pCache, startIndex, frags, clean, calls, last,
                 noRepeat, parseLimit, tagInputs,
                 instanceVars>>

ExtractQueries ==
  {SpecialQuery(Chars(Source), Undef), SpecialQuery(Chars(Source), Func("toUpperCase"))}

ExtractAddSpecialQuery == AddSpecialQuery(ExtractQueries)

\* tags.parseString(input), once
ParseExtract ==
  /\ lastTags.op # "parseString"
  /\ \E input \in ExtractInputs :
       ParseCall(input, FALSE, << >>,
                 parseString(Chars(input.text), FALSE, << >>, noRepeat,
                             parseLimit, tagInputs, specialQueries))

NextExtract == SetParseLimit \/ SetCanRepeat \/ ExtractAddSpecialQuery \/ ParseExtract

SpecExtract == Init /\ [][NextExtract]_vars

-----------------------------------------------------------------------------
(* Claims about modifiers, specials and duplicates (SpecExtract).          *)

Parsed == lastTags.op = "parseString" /\ lastTags.threw = ""

\* C16: with duplicate suppression enabled (setCanRepeat(false)), for every
\* input the include list holds no two equal bare entries.
C16_NoEqualBareEntries ==
  (Parsed /\ noRepeat) =>
    \A i \in 1..Len(lastTags.result.include) :
      \A j \in (i + 1)..Len(lastTags.result.include) :
        (~isArray(lastTags.result.include[i]) /\ ~isArray(lastTags.result.include[j]))
          => lastTags.result.include[i] # lastTags.result.include[j]

\* The longest prefix of digits
RECURSIVE LeadingDigits(_)
LeadingDigits(c) ==
  IF c # <<>> /\ IsDigit(Head(c)) THEN <<Head(c)>> \o LeadingDigits(Tail(c)) ELSE <<>>
\* The number a sequence of digits writes
RECURSIVE NumberOf(_)
NumberOf(digits) ==
  IF digits = <<>> THEN 0
  ELSE 10 * NumberOf(SubSeq(digits, 1, Len(digits) - 1))
       + DigitValue(digits[Len(digits)])

\* The number raw begins with, '!' read as a minus sign; 1 when it begins
\* with none
NumberRead(raw) ==
  IF raw # <<>> /\ raw[1] = "!"
  THEN IF LeadingDigits(Tail(raw)) = <<>> THEN 1
       ELSE 0 - NumberOf(LeadingDigits(Tail(raw)))
  ELSE IF LeadingDigits(raw) = <<>> THEN 1 ELSE NumberOf(LeadingDigits(raw))

InputOf(symbol) == tagInputs[CHOOSE k \in DOMAIN tagInputs : tagInputs[k].symbol = symbol]

\* The terms of the chunks, in order
RECURSIVE ChunkTerms(_)
ChunkTerms(chunks) ==
  IF chunks = <<>> THEN <<>>
  ELSE (IF isArray(Head(chunks)) THEN CharsOf(Head(chunks).items)
        ELSE <<Head(chunks).c>>)
       \o ChunkTerms(Tail(chunks))

IsRegistered(key) == \E k \in DOMAIN specialQueries : specialQueries[k].title = Chars(key)

\* What the items of an input leave in the include list: the base of a
\* term with a modifier, nothing for a term of a registered special query,
\* the term itself otherwise
RECURSIVE Residue(_)
Residue(items) ==
  IF items = <<>> THEN <<>>
  ELSE (IF Head(items) = <<"a", "^", "2">> THEN << <<"a">> >>
        ELSE IF Head(items) = Source \o <<":", "x">> /\ IsRegistered(Source) THEN <<>>
        ELSE <<Head(items)>>)
       \o Residue(Tail(items))

\* C17: a term base + symbol + raw with a registered modifier symbol gives
\* the record {term: base, [valueKey]: v} in that symbol's list, v being
\* the number raw begins with, '!' read as a minus sign, and 1 when there
\* is none; each list holds at most one record per base term; base stays in
\* the include list. 'applejack^2' yields include ['applejack'] and boosts
\* [{term: 'applejack', boost: 2}].
C17_ModifierExtraction ==
  Parsed =>
    /\ (lastTags.arg.input.family = "modifier" /\ parseLimit # 0) =>
         /\ lastTags.result.lists[InputOf(lastTags.arg.input.symbol).list]
              = <<Obj(<<"term", InputOf(lastTags.arg.input.symbol).valueKey>>,
                      <<Chars(lastTags.arg.input.base),
                        Num(NumberRead(lastTags.arg.input.raw))>>)>>
         /\ \A l \in DOMAIN lastTags.result.lists :
              l # InputOf(lastTags.arg.input.symbol).list
                => lastTags.result.lists[l] = <<>>
         /\ lastTags.result.include = <<Chars(lastTags.arg.input.base)>>
         /\ lastTags.result.specials = <<>>
    /\ \A l \in DOMAIN lastTags.result.lists :
         \A i \in 1..Len(lastTags.result.lists[l]) :
           \A j \in (i + 1)..Len(lastTags.result.lists[l]) :
             Get(lastTags.result.lists[l][i], "term")
               # Get(lastTags.result.lists[l][j], "term")
    /\ (lastTags.arg.input.family = "items" /\ ~noRepeat /\ parseLimit < 0) =>
         /\ ChunkTerms(lastTags.result.include) = Residue(lastTags.arg.input.items)
         /\ lastTags.result.lists["boosts"]
              = IF \E i \in 1..Len(lastTags.arg.input.items) :
                     lastTags.arg.input.items[i] = <<"a", "^", "2">>
                THEN <<Obj(<<"term", "boost">>, <<Chars(<<"a">>), Num(2)>>)>>
                ELSE <<>>
    /\ (/\ lastTags.arg.input.text
              = <<"a", "p", "p", "l", "e", "j", "a", "c", "k", "^", "2">>
        /\ parseLimit # 0)
         => /\ lastTags.result.include
                 = <<Chars(<<"a", "p", "p", "l", "e", "j", "a", "c", "k">>)>>
            /\ lastTags.result.lists["boosts"]
                 = <<Obj(<<"term", "boost">>,
                         <<Chars(<<"a", "p", "p", "l", "e", "j", "a", "c", "k">>),
                           Num(2)>>)>>

\* C17 happens: 'applejack~!2' gave the fuzzy value -2 and kept applejack.
C17_Witness ==
  /\ Parsed
  /\ lastTags.arg.input.family = "modifier"
  /\ lastTags.arg.input.text
       = <<"a", "p", "p", "l", "e", "j", "a", "c", "k", "~", "!", "2">>
  /\ lastTags.result.lists["fuzzies"]
       = <<Obj(<<"term", "fuzzy">>,
               <<Chars(<<"a", "p", "p", "l", "e", "j", "a", "c", "k">>),
                 Num(-2)>>)>>
  /\ lastTags.result.include
       = <<Chars(<<"a", "p", "p", "l", "e", "j", "a", "c", "k">>)>>

\* The first special query with the given title
QueryOf(key) ==
  specialQueries[CHOOSE k \in DOMAIN specialQueries :
                   /\ specialQueries[k].title = Chars(key)
                   /\ \A j \in 1..(k - 1) : specialQueries[j].title # Chars(key)]

\* C18: for a term 'key:rest' without a modifier symbol: if key is the
\* title of a registered special query, {key, value} is appended to
\* specials (value = rest, or parser(rest) when a parser is registered) and
\* the term is removed from the include list; if key is not registered,
\* nothing is added to specials, no error is raised and the term stays in
\* the include list unchanged. With a special 'source' registered,
\* 'source:ponybooru' yields specials [{key:'source', value:'ponybooru'}]
\* and an empty include list.
C18_SpecialExtraction ==
  (lastTags.op = "parseString" /\ lastTags.arg.input.family = "special"
     /\ parseLimit # 0) =>
    /\ lastTags.threw = ""
    /\ IsRegistered(lastTags.arg.input.key) =>
         /\ lastTags.result.specials
              = <<Obj(<<"key", "value">>,
                      <<Chars(lastTags.arg.input.key),
                        IF QueryOf(lastTags.arg.input.key).parser.t = "function"
                        THEN Chars(UpperChars(lastTags.arg.input.rest))
                        ELSE Chars(lastTags.arg.input.rest)>>)>>
         /\ lastTags.result.include = <<>>
    /\ ~IsRegistered(lastTags.arg.input.key) =>
         /\ lastTags.result.specials = <<>>
         /\ lastTags.result.include = <<Chars(lastTags.arg.input.text)>>

\* C18 happens: with 'source' registered, 'source:ponybooru' was parsed.
C18_Witness ==
  /\ Parsed
  /\ lastTags.arg.input.family = "special"
  /\ lastTags.arg.input.text
       = Source \o <<":", "p", "o", "n", "y", "b", "o", "o", "r", "u">>
  /\ lastTags.result.specials
       = <<Obj(<<"key", "value">>,
               <<Chars(Source),
                 Chars(<<"p", "o", "n", "y", "b", "o", "o", "r", "u">>)>>)>>
  /\ lastTags.result.include = <<>>

\* C19: the include list parseString returns holds no empty chunk, and
\* every array chunk has at least two members: a chunk left with one
\* residual term is a bare string.
C19_ChunksNormalised ==
  Parsed =>
    \A i \in 1..Len(lastTags.result.include) :
      isArray(lastTags.result.include[i])
        => Len(lastTags.result.include[i].items) >= 2

-----------------------------------------------------------------------------
(* Registration of tag inputs and special queries (SpecSetup).             *)

\* The position of the entry of #tagInputs with the given key, or 0
InputIndex(inputs, key) ==
  IF \E k \in DOMAIN inputs : inputs[k].symbol = key
  THEN CHOOSE k \in DOMAIN inputs : inputs[k].symbol = key
  ELSE 0

\* The checks of addTagInput
InvalidTagInput(list, valueKey) ==
  \/ list.t # "string" \/ valueKey.t # "string"
  \/ list.s = "include"
  \/ list.s = "column"

\* this.#tagInputs[key] = { list, valueKey }: an existing key keeps its
\* place among the keys and takes the new value
addTagInput(inputs, key, list, valueKey) ==
  IF InvalidTagInput(list, valueKey) THEN inputs
  ELSE IF InputIndex(inputs, key) > 0
  THEN [inputs EXCEPT ![InputIndex(inputs, key)] = TagInput(key, list.s, valueKey.s)]
  ELSE Append(inputs, TagInput(key, list.s, valueKey.s))

SetupKeys == {"^", "~", "#"}
SetupLists == {Str("boosts"), Str("tiers"), Str("include"), Null}
SetupValueKeys == {Str("tier"), Null}

\* tags.addTagInput(key, list, valueKey)
AddTagInput ==
  /\ regs < MaxRegs
  /\ \E key \in SetupKeys, list \in SetupLists, valueKey \in SetupValueKeys :
       /\ tagInputs' = addTagInput(tagInputs, key, list, valueKey)
       /\ lastTags' = TagsCall("addTagInput",
                               [key |-> key, list |-> list, valueKey |-> valueKey],
                               IF InvalidTagInput(list, valueKey) THEN "Error" ELSE "",
                               Undef)
  /\ regs' = regs + 1
  /\ UNCHANGED <<conditions, customValFunc, wildcardA, wildcardB, useJsonEach,
                 pCache, startIndex, frags, clean, calls, last,
                 noRepeat, parseLimit, specialQueries,
                 instanceVars>>

\* Configs: two titles, with and without a parser, and two malformed ones
SetupQueries ==
  {SpecialQuery(Chars(title), parser) :
     title \in {Source, <<"k">>}, parser \in {Undef, Func("toUpperCase")}}
  \cup {Null, SpecialQuery(Num(1), Undef)}

SetupAddSpecialQuery == AddSpecialQuery(SetupQueries)

NextSetup == AddTagInput \/ SetupAddSpecialQuery

SpecSetup == Init /\ [][NextSetup]_vars

-----------------------------------------------------------------------------
(* Claims about the registries of the tag compiler (SpecSetup).            *)

\* C20: the special-query registry and the tag-input registry are
\* write-once per key: addSpecialQuery with a title that is already
\* registered and addTagInput with a symbol that is already registered
\* (the built-in '^' and '~' included) are rejected and leave the registry
\* as it was, so each title and each symbol has at most one definition.
C20_WriteOnce ==
  /\ (/\ lastTags.op = "addSpecialQuery"
      /\ ~InvalidSpecialQuery(lastTags.arg)
      /\ \E k \in DOMAIN lastTags.queries :
           lastTags.queries[k].title = lastTags.arg.title)
       => (lastTags.threw # "" /\ specialQueries = lastTags.queries)
  /\ (/\ lastTags.op = "addTagInput"
      /\ InputIndex(lastTags.inputs, lastTags.arg.key) > 0)
       => (lastTags.threw # "" /\ tagInputs = lastTags.inputs)
  /\ \A i, j \in DOMAIN specialQueries :
       i # j => specialQueries[i].title # specialQueries[j].title
  /\ \A i, j \in DOMAIN tagInputs :
       i # j => tagInputs[i].symbol # tagInputs[j].symbol

-----------------------------------------------------------------------------
(* The WHERE clause of PuddySqlQuery.search and PuddySqlQuery.find         *)
(* (SpecSearch).                                                           *)

MaxTagGroups == 2

\* this.#tagColumns: the columns that have a tag editor
TagColumns == {"tags"}

\* One entry of whereParts: a logical operator or a compiled fragment
Part(isOp, text) == [op |-> isOp, text |-> text]

\* The assembly in progress: whether it has thrown, whereParts, pCache
Assembly(threw, parts, cache) == [threw |-> threw, parts |-> parts, cache |-> cache]

\* if (Object.keys(criteria).length) whereParts.push(this.parseWhere(pCache, criteria));
PushCriteria(acc, r) ==
  Assembly(r.threw, IF r.threw THEN acc.parts ELSE Append(acc.parts, Part(FALSE, r.text)),
           r.cache)

\* const op = i > 0 ? operators[i - 1] || 'AND' : null; i counts from 0
TagOperator(i, operators) ==
  IF i = 0 THEN Null
  ELSE IF i <= Len(operators) /\ ~Falsy(operators[i]) THEN operators[i]
  ELSE Str("AND")

\* if (!clause) return; if (op) whereParts.push(op); whereParts.push(clause);
PushClause(acc, r, op) ==
  IF r.threw THEN Assembly(TRUE, acc.parts, r.cache)
  ELSE IF r.text = <<>> THEN Assembly(FALSE, acc.parts, r.cache)
  ELSE Assembly(FALSE,
                (IF Falsy(op) THEN acc.parts
                 ELSE Append(acc.parts, Part(TRUE, <<ToStr(op)>>)))
                  \o <<Part(FALSE, r.text)>>,
                r.cache)

\* The checks on one item of tagCriteria, getTagEditor(group.column) included
InvalidTagGroup(group) ==
  \/ ~isJsonObject(group)
  \/ Get(group, "column").t # "string"
  \/ Get(group, "column").s \notin TagColumns

\* tagCriteria.forEach((group, i) => ...), from item i on
RECURSIVE TagGroups(_, _, _, _, _, _, _)
TagGroups(acc, groups, i, operators, wA, wB, uje) ==
  IF acc.threw \/ i >= Len(groups) THEN acc
  ELSE IF InvalidTagGroup(groups[i + 1]) THEN Assembly(TRUE, acc.parts, acc.cache)
  ELSE TagGroups(PushClause(acc,
                            tagsParseWhere(groups[i + 1], acc.cache, wA, wB, uje),
                            TagOperator(i, operators)),
                 groups, i + 1, operators, wA, wB, uje)

\* The tagCriteria part of the assembly: an array of groups, one group
\* with a string column, or anything else
TagParts(acc, tagCriteria, operators, wA, wB, uje) ==
  IF acc.threw THEN acc
  ELSE IF isArray(tagCriteria)
  THEN TagGroups(acc, tagCriteria.items, 0, operators, wA, wB, uje)
  ELSE IF isJsonObject(tagCriteria) /\ Get(tagCriteria, "column").t = "string"
  THEN IF InvalidTagGroup(tagCriteria) THEN Assembly(TRUE, acc.parts, acc.cache)
       ELSE PushClause(acc, tagsParseWhere(tagCriteria, acc.cache, wA, wB, uje), Null)
  ELSE acc

\* whereParts as search and find build it, on const pCache = {index: 1, values: []}
whereParts(criteria, tagCriteria, operators, conds, cvf, wA, wB, uje) ==
  TagParts(IF criteria.keys # <<>>
           THEN PushCriteria(Assembly(FALSE, <<>>, Cache(1, <<>>)),
                             parseWhere(Cache(1, <<>>), criteria, conds, cvf))
           ELSE Assembly(FALSE, <<>>, Cache(1, <<>>)),
           tagCriteria, operators, wA, wB, uje)

PartTexts(parts) == [k \in 1..Len(parts) |-> parts[k].text]

\* whereParts.length ? `WHERE ${whereParts.join(' ')}` : ''
whereClause(parts) ==
  IF parts = <<>> THEN <<>> ELSE <<"WHERE ">> \o Join(PartTexts(parts), " ")

\* searchData.q
SearchCriteria ==
  {EmptyObject, StatusLeaf, StatusFlat, Group(Str("OR"), <<StatusLeaf, TypeLeaf>>),
   Group(Str("OR"), <<>>)}

\* One item of searchData.tagsQ: { column, include }
TagGroup(column, include) == Obj(<<"column", "include">>, <<column, Arr(include)>>)
SearchTagGroups ==
  {TagGroup(Str("tags"), <<TagA>>), TagGroup(Str("tags"), <<Arr(<<TagA, TagB>>)>>),
   TagGroup(Str("tags"), <<>>), TagGroup(Str("other"), <<TagA>>)}

\* searchData.tagsQ: an array of groups, one group, or null
SearchTagCriteria ==
  {Arr(groups) : groups \in SeqsUpTo(SearchTagGroups, MaxTagGroups)}
  \cup SearchTagGroups \cup {Null}

\* searchData.tagsOpsQ, as the array the loop reads
SearchOperators == {<<>>, <<Str("OR")>>, <<Str("")>>}

\* query.search({ q, tagsQ, tagsOpsQ }) up to the WHERE clause, once
Search ==
  /\ last.op = "new"
  /\ \E criteria \in SearchCriteria, tagCriteria \in SearchTagCriteria,
        operators \in SearchOperators :
       last' = [op |-> "search",
                arg |-> [q |-> criteria, tagsQ |-> tagCriteria, tagsOpsQ |-> operators],
                result |-> whereParts(criteria, tagCriteria, operators, conditions,
                                      customValFunc, wildcardA, wildcardB, useJsonEach)]
  /\ UNCHANGED <<conditions, customValFunc, wildcardA, wildcardB, useJsonEach,
                 pCache, startIndex, frags, clean, calls, regs, tokenizerVars,
                 instanceVars>>

NextSearch == Search

SpecSearch == Init /\ [][NextSearch]_vars

-----------------------------------------------------------------------------
(* Claims about the assembled WHERE clause (SpecSearch).                   *)

Searched == last.op = "search" /\ ~last.result.threw

\* C21: in the WHERE clause search and find assemble from a non-empty
\* generic fragment and tag fragments compiled on the same cache, every
\* two adjacent fragments are separated by a logical operator.
C21_FragmentsSeparated ==
  Searched =>
    \A k \in 1..(Len(last.result.parts) - 1) :
      (last.result.parts[k].text # <<>> /\ ~last.result.parts[k].op)
        => last.result.parts[k + 1].op

-----------------------------------------------------------------------------
(* PuddySqlTags.safeParseString (SpecSafe).                                *)

MaxSafeItems == 2

\* parts.join(sep) for a separator of several characters
RECURSIVE JoinSeqs(_, _)
JoinSeqs(parts, sep) ==
  IF parts = <<>> THEN <<>>
  ELSE IF Len(parts) = 1 THEN parts[1]
  ELSE parts[1] \o sep \o JoinSeqs(Tail(parts), sep)

\* .map((item) => item.trim())
TrimEach(parts) == [k \in 1..Len(parts) |-> Trim(parts[k])]

\* The match of \s?NOT$ : the text ends with NOT, one white space before it
\* belongs to the match
EndsWithNot(c) == Len(c) >= 3 /\ SubSeq(c, Len(c) - 2, Len(c)) = <<"N", "O", "T">>
BeforeNot(c) ==
  IF Len(c) >= 4 /\ c[Len(c) - 3] \in Whitespace
  THEN SubSeq(c, 1, Len(c) - 4) ELSE SubSeq(c, 1, Len(c) - 3)

\* Every '-' becomes '!'
MinusToBang(c) == [k \in 1..Len(c) |-> IF c[k] = "-" THEN "!" ELSE c[k]]

\* .replace(/\-|\s?NOT$/g, '!')
ReplaceMinusNot(c) ==
  IF EndsWithNot(c) THEN MinusToBang(BeforeNot(c)) \o <<"!">> ELSE MinusToBang(c)

\* The text safeParseString hands to parseString
SafeText(c) ==
  ReplaceAll(ReplaceAll(ReplaceMinusNot(JoinSeqs(TrimEach(SplitAt(c, ",")),
                                                <<" ", "A", "N", "D", " ">>)),
                        <<"&", "&">>, <<"A", "N", "D">>),
             <<"|", "|">>, <<"O", "R">>)

\* safeParseString(input, strictMode, strictConfig); input.split of a value
\* that is no string is a TypeError
safeParseString(input, strictMode, strictConfig, noRep, limit, inputs, queries) ==
  IF input.t # "chars" THEN ParseResult("TypeError", <<>>, <<>>, << >>, 0)
  ELSE parseString(Chars(SafeText(input.c)), strictMode, strictConfig, noRep, limit,
                   inputs, queries)

\* The items of an input: a term, bare or negated in one of the two spellings
SafePrefixes == {<<>>, <<"-">>, <<"N", "O", "T", " ">>}
SafeTerms == {<<"a">>, <<"b">>, <<"c", "-", "d">>}
SafeItem(prefix, term) == [prefix |-> prefix, term |-> term]
SafeItems == {SafeItem(prefix, term) : prefix \in SafePrefixes, term \in SafeTerms}

\* The separators of an input
SafeSeps == {<<",">>, <<",", " ">>, <<" ", "&", "&", " ">>, <<" ", "|", "|", " ">>}

ItemText(item) == item.prefix \o item.term
ItemTexts(items) == [k \in 1..Len(items) |-> ItemText(items[k])]

SafeInput(items, seps) ==
  [family |-> "safe", items |-> items, seps |-> seps,
   text |-> Interleave(ItemTexts(items), seps)]

SafeInputs ==
  UNION {{SafeInput(items, seps) : seps \in [1..(Len(items) - 1) -> SafeSeps]} :
         items \in SeqsUpTo(SafeItems, MaxSafeItems) \ {<<>>}}

\* tags.safeParseString(input), once
SafeParse ==
  /\ lastTags.op # "safeParseString"
  /\ \E input \in SafeInputs :
       lastTags' = TagsCall("safeParseString", ParseArgs(input, FALSE, << >>), "",
                            safeParseString(Chars(input.text), FALSE, << >>, noRepeat,
                                            parseLimit, tagInputs, specialQueries))
  /\ UNCHANGED <<conditions, customValFunc, wildcardA, wildcardB, useJsonEach,
                 pCache, startIndex, frags, clean, calls, regs, last,
                 noRepeat, parseLimit, tagInputs, specialQueries,
                 instanceVars>>

NextSafe == SafeParse

SpecSafe == Init /\ [][NextSafe]_vars

-----------------------------------------------------------------------------
(* Claims about safeParseString (SpecSafe).                                *)

\* The normalised form of an input: a negated term is '!' and the term, a
\* comma and '&&' are AND, '||' is OR
NormalItem(item) == (IF item.prefix = <<>> THEN <<>> ELSE <<"!">>) \o item.term
NormalItems(items) == [k \in 1..Len(items) |-> NormalItem(items[k])]
NormalSep(sep) == IF sep = <<" ", "|", "|", " ">> THEN SepOr ELSE SepAnd
NormalSeps(seps) == [k \in 1..Len(seps) |-> NormalSep(seps[k])]
Normalised(input) == Interleave(NormalItems(input.items), NormalSeps(input.seps))

\* C22: safeParseString(input) returns what parseString returns on the
\* normalised input: every comma and '&&' replaced by AND, '||' by OR,
\* '-tag' and 'NOT tag' by '!tag'.
C22_SafeIsParseOfNormalised ==
  lastTags.op = "safeParseString" =>
    lastTags.result = parseString(Chars(Normalised(lastTags.arg.input)), FALSE, << >>,
                                  noRepeat, parseLimit, tagInputs, specialQueries)

-----------------------------------------------------------------------------
(* Removal of tag inputs (SpecInputs).                                     *)

\* hasTagInput(key): it throws a TypeError, or returns a boolean
hasTagInput(inputs, key) ==
  IF key.t # "string" THEN [threw |-> "TypeError", value |-> FALSE]
  ELSE [threw |-> "", value |-> InputIndex(inputs, key.s) > 0]

\* delete this.#tagInputs[key]
DeleteInput(inputs, key) == SelectSeq(inputs, LAMBDA input : input.symbol # key)

\* removeTagInput(key): #tagInputs after the call
removeTagInput(inputs, key) ==
  IF hasTagInput(inputs, key).threw = "" /\ hasTagInput(inputs, key).value
  THEN DeleteInput(inputs, key.s)
  ELSE inputs

\* removeTagInput(key): the error the call ends with; the throw statement
\* follows the if block and is reached on every path
removeTagInputThrew(inputs, key) ==
  IF hasTagInput(inputs, key).threw # "" THEN hasTagInput(inputs, key).threw
  ELSE "Error"

RemoveKeys == {Str("^"), Str("~"), Str("#"), Num(1)}

\* tags.removeTagInput(key)
RemoveTagInput ==
  /\ regs < MaxRegs
  /\ \E key \in RemoveKeys :
       /\ tagInputs' = removeTagInput(tagInputs, key)
       /\ lastTags' = TagsCall("removeTagInput", key,
                               removeTagInputThrew(tagInputs, key), Undef)
  /\ regs' = regs + 1
  /\ UNCHANGED <<conditions, customValFunc, wildcardA, wildcardB, useJsonEach,
                 pCache, startIndex, frags, clean, calls, last,
                 noRepeat, parseLimit, specialQueries,
                 instanceVars>>

\* tags.hasTagInput(key)
HasTagInput ==
  /\ lastTags.op \in {"addTagInput", "removeTagInput"}
  /\ \E key \in RemoveKeys :
       lastTags' = TagsCall("hasTagInput", key, hasTagInput(tagInputs, key).threw,
                            Bool(hasTagInput(tagInputs, key).value))
  /\ UNCHANGED <<conditions, customValFunc, wildcardA, wildcardB, useJsonEach,
                 pCache, startIndex, frags, clean, calls, regs, last,
                 noRepeat, parseLimit, tagInputs, specialQueries,
                 instanceVars>>

\* A term with one of the symbols
SymbolInputs ==
  {ModifierInput(<<"a">>, symbol, <<"2">>) : symbol \in {"^", "~", "#"}}

\* tags.parseString(input) after the registrations
ParseSymbol ==
  /\ lastTags.op \in {"addTagInput", "removeTagInput"}
  /\ \E input \in SymbolInputs :
       ParseCall(input, FALSE, << >>,
                 parseString(Chars(input.text), FALSE, << >>, noRepeat,
                             parseLimit, tagInputs, specialQueries))

NextInputs == AddTagInput \/ RemoveTagInput \/ HasTagInput \/ ParseSymbol

SpecInputs == Init /\ [][NextInputs]_vars

-----------------------------------------------------------------------------
(* Claims about removeTagInput (SpecInputs).                               *)

\* C23: removeTagInput(key) deletes the mapping and returns normally when
\* key is a registered symbol and throws only when it is not; after a
\* removal that found the key, hasTagInput(key) is false and a term with
\* the symbol is no longer treated as a modifier.
C23_RemoveReturnsWhenRegistered ==
  /\ lastTags.op = "removeTagInput" =>
       /\ (lastTags.threw = "")
            = (lastTags.arg.t = "string"
               /\ InputIndex(lastTags.inputs, lastTags.arg.s) > 0)
       /\ lastTags.arg.t = "string" => InputIndex(tagInputs, lastTags.arg.s) = 0
  /\ (lastTags.op = "hasTagInput" /\ lastTags.arg.t = "string") =>
       lastTags.result = Bool(InputIndex(tagInputs, lastTags.arg.s) > 0)
  /\ (lastTags.op = "parseString"
      /\ InputIndex(tagInputs, lastTags.arg.input.symbol) = 0) =>
       /\ lastTags.result.include = <<Chars(lastTags.arg.input.text)>>
       /\ \A l \in DOMAIN lastTags.result.lists : lastTags.result.lists[l] = <<>>

-----------------------------------------------------------------------------
(* PuddySqlEngine and PuddySqlInstance: the engine identifier and the      *)
(* all/get/run methods installed by setSqlite3 and setPostgre.             *)

MaxDbCalls == 1
MaxPlaceholder == 3

\* The strings s with s.trim() === ''
BlankStrings == {"", " "}

\* The outcome of a call on the instance: error thrown or value returned,
\* and the engine identifier and installed methods after the call
EngineResult(threw, error, engine, methods, value) ==
  [threw |-> threw, error |-> error, engine |-> engine, methods |-> methods,
   value |-> value]

\* isSqlEngineEmpty()
isSqlEngineEmpty(engine) == engine \in BlankStrings

\* getSqlEngine()
getSqlEngine(engine, methods) ==
  IF engine \in BlankStrings
  THEN EngineResult(TRUE, "SQL engine is not defined.", engine, methods, Undef)
  ELSE EngineResult(FALSE, "", engine, methods, Str(engine))

\* setSqlEngine(arg)
setSqlEngine(engine, methods, arg) ==
  IF engine # ""
  THEN EngineResult(TRUE, "SQL engine has already been set and cannot be changed.",
                    engine, methods, Undef)
  ELSE IF arg.t # "string" \/ arg.s \in BlankStrings
  THEN EngineResult(TRUE, "Invalid SQL engine: only non-empty strings are allowed.",
                    engine, methods, Undef)
  ELSE EngineResult(FALSE, "", arg.s, methods, Undef)

\* this.all = ..., this.get = ..., this.run = ... after setSqlEngine(name)
InstallMethods(r, name) == IF r.threw THEN r ELSE [r EXCEPT !.methods = name]

\* The branch of setPostgre taken on the value g returned by getSqlEngine()
SetPostgreBranch(engine, methods, g) ==
  IF g.threw THEN g
  ELSE IF g.value.s = ""
  THEN InstallMethods(setSqlEngine(engine, methods, Str("postgre")), "postgre")
  ELSE EngineResult(TRUE, "SQL has already been initialized in this instance!",
                    engine, methods, Undef)

\* setPostgre(db); db is the class of the argument
setPostgre(engine, methods, db) ==
  IF db # "pg.Pool"
  THEN EngineResult(TRUE, "Invalid type for db. Expected a PostgreSQL.",
                    engine, methods, Undef)
  ELSE SetPostgreBranch(engine, methods, getSqlEngine(engine, methods))

\* setSqlite3(db); db is the class of the argument
setSqlite3(engine, methods, db) ==
  IF db # "Database"
  THEN EngineResult(TRUE, "Invalid type for db. Expected a Sqlite3.",
                    engine, methods, Undef)
  ELSE IF isSqlEngineEmpty(engine)
  THEN InstallMethods(setSqlEngine(engine, methods, Str("sqlite3")), "sqlite3")
  ELSE EngineResult(TRUE, "SQL has already been initialized in this instance!",
                    engine, methods, Undef)

\* await this.#db.connect() at the end of initPostgre
Connect(r, connected) ==
  IF r.threw \/ connected THEN r ELSE [r EXCEPT !.threw = TRUE, !.error = "connect"]

\* initPostgre(config): the promise it returns, settled
initPostgre(engine, methods, connected) ==
  IF isSqlEngineEmpty(engine)
  THEN Connect(setPostgre(engine, methods, "pg.Pool"), connected)
  ELSE EngineResult(TRUE, "SQL has already been initialized in this instance!",
                    engine, methods, Undef)

\* A settled call on the instance, with the engine state it started from
InstCall(op, arg, r) ==
  [op |-> op, arg |-> arg, threw |-> r.threw, error |-> r.error, value |-> r.value,
   engine |-> sqlEngine, methods |-> sqlMethods, invoked |-> FALSE]

EngineCall(op, arg, r) ==
  /\ sqlEngine' = r.engine
  /\ sqlMethods' = r.methods
  /\ lastInst' = InstCall(op, arg, r)
  /\ UNCHANGED <<conditions, customValFunc, wildcardA, wildcardB, useJsonEach,
                 pCache, startIndex, frags, clean, calls, regs, last, tokenizerVars,
                 tables, tasks, newTables, dbLog>>

EngineNames == {Str("sqlite3"), Str("postgre"), Str(""), Str(" "), Num(1), Undef}
DbClasses == {"pg.Pool", "Database", "Object"}

SetSqlEngine ==
  \E arg \in EngineNames :
    EngineCall("setSqlEngine", arg, setSqlEngine(sqlEngine, sqlMethods, arg))

GetSqlEngine == EngineCall("getSqlEngine", Undef, getSqlEngine(sqlEngine, sqlMethods))

IsSqlEngineEmpty ==
  EngineCall("isSqlEngineEmpty", Undef,
             EngineResult(FALSE, "", sqlEngine, sqlMethods,
                          Bool(isSqlEngineEmpty(sqlEngine))))

SetSqlite3 ==
  \E db \in DbClasses :
    EngineCall("setSqlite3", db, setSqlite3(sqlEngine, sqlMethods, db))

SetPostgre ==
  \E db \in DbClasses :
    EngineCall("setPostgre", db, setPostgre(sqlEngine, sqlMethods, db))

InitPostgre ==
  \E connected \in BOOLEAN :
    EngineCall("initPostgre", connected, initPostgre(sqlEngine, sqlMethods, connected))

\* [...query.matchAll(/\$([0-9]+)/g)]: the numbers of the $n tokens of a query
IsDollarNumber(tok) == \E n \in 0..MaxPlaceholder : tok = Placeholder(n)
DollarNumber(tok) == CHOOSE n \in 0..MaxPlaceholder : tok = Placeholder(n)
DollarTokens(query) == SelectSeq(query, IsDollarNumber)
matchAll(query) == [i \in 1..Len(DollarTokens(query)) |-> DollarNumber(DollarTokens(query)[i])]

\* The messages validatePostgresParams hands to sendError
InvalidPlaceholder(index) ==
  "Invalid placeholder $" \o ToString(index) \o ": must be greater than 0."
MissingParameter(index, length) ==
  "Query references $" \o ToString(index) \o " but only " \o ToString(length)
    \o " parameter(s) provided."
MissingPlaceholder(i) ==
  "Placeholder $" \o ToString(i) \o " is missing but higher placeholders exist."
ParamsTypeError == "TypeError: Cannot read properties of undefined (reading 'length')"

\* The errors of one match of the first loop; length is params.length
MatchErrors(index, length) ==
  (IF index <= 0 THEN <<InvalidPlaceholder(index)>> ELSE << >>)
    \o (IF index > length THEN <<MissingParameter(index, length)>> ELSE << >>)

\* Math.max(...placeholders), 0 for no placeholder
maxIndex(indexes) ==
  IF indexes = << >> THEN 0
  ELSE CHOOSE m \in 0..MaxPlaceholder :
         /\ \E i \in 1..Len(indexes) : indexes[i] = m
         /\ \A i \in 1..Len(indexes) : indexes[i] <= m

\* The errors of the second loop: the gaps of the numbering, ascending
GapErrors(indexes) ==
  LET missing == SelectSeq([i \in 1..maxIndex(indexes) |-> i],
                           LAMBDA i : \A k \in 1..Len(indexes) : indexes[k] # i)
  IN [k \in 1..Len(missing) |-> MissingPlaceholder(missing[k])]

Validation(errors, threw) == [errors |-> errors, threw |-> threw]

\* validatePostgresParams(query, params, errCallback) with a function as
\* errCallback: sendError returns errCallback(err) and the loops go on; the
\* result holds the errors handed to errCallback, in order, and whether the
\* call ended in the TypeError of params.length on an undefined params
ValidateIndexes(indexes, params) ==
  IF params.t = "undefined"
  THEN (IF indexes = << >> THEN Validation(<< >>, FALSE)
        ELSE Validation(IF indexes[1] <= 0 THEN <<InvalidPlaceholder(indexes[1])>>
                        ELSE << >>, TRUE))
  ELSE Validation(Flatten([i \in 1..Len(indexes) |->
                             MatchErrors(indexes[i], Len(params.items))])
                    \o GapErrors(indexes), FALSE)

validatePostgresParams(query, params) == ValidateIndexes(matchAll(query), params)

\* The promise executor of this.all / this.get / this.run (setSqlite3):
\* validatePostgresParams(query, params, reject), then db[method](query, params)
\* unless the executor has thrown; a promise keeps the first settlement
Executor(v, dbRejects) ==
  [invoked |-> ~v.threw,
   rejected |-> v.errors # << >> \/ v.threw \/ dbRejects,
   error |-> IF v.errors # << >> THEN v.errors[1]
             ELSE IF v.threw THEN ParamsTypeError
             ELSE IF dbRejects THEN "db" ELSE ""]

\* The params the method body sees: all and get default an omitted params to []
EffectiveParams(method, params) ==
  IF method \in {"all", "get"} /\ params.t = "undefined" THEN Arr(<< >>) ELSE params

sqliteMethod(method, query, params, dbRejects) ==
  Executor(validatePostgresParams(query, EffectiveParams(method, params)), dbRejects)

\* db.all(query, params), db.get(query, params), db.run(query, params) as
\* received by the underlying database
DbInvoked(method, query) == [method |-> method, query |-> query]

DbCall(method, query, params) == [method |-> method, query |-> query, params |-> params]

SqlMethods == {"all", "get", "run"}
SqlQueries ==
  { <<"SELECT 1">>,
    <<"a = ", "$1">>,
    <<"a = ", "$2">>,
    <<"a = ", "$0">> }
SqlParams == {Undef, Arr(<< >>), Arr(<<Num(1)>>), Arr(<<Num(1), Num(2)>>)}

\* instance.all(query, params), instance.get(...), instance.run(...) with the
\* SQLite methods installed, and the settlement of the promise returned
SqliteMethod ==
  /\ sqlMethods = "sqlite3"
  /\ Len(dbLog) < MaxDbCalls
  /\ \E method \in SqlMethods, query \in SqlQueries, params \in SqlParams, dbRejects \in BOOLEAN :
       LET x == sqliteMethod(method, query, params, dbRejects)
       IN /\ dbLog' = IF x.invoked
                      THEN Append(dbLog, DbInvoked(method, query))
                      ELSE dbLog
          /\ lastInst' = [op |-> method, arg |-> DbCall(method, query, params),
                          threw |-> x.rejected, error |-> x.error, value |-> Undef,
                          engine |-> sqlEngine, methods |-> sqlMethods,
                          invoked |-> x.invoked]
  /\ UNCHANGED <<conditions, customValFunc, wildcardA, wildcardB, useJsonEach,
                 pCache, startIndex, frags, clean, calls, regs, last, tokenizerVars,
                 sqlEngine, sqlMethods, tables, tasks, newTables>>

NextEngine ==
  \/ SetSqlEngine
  \/ GetSqlEngine
  \/ IsSqlEngineEmpty
  \/ SetSqlite3
  \/ SetPostgre
  \/ InitPostgre
  \/ SqliteMethod

SpecEngine == Init /\ [][NextEngine]_vars

\* C24: on an instance without an engine, setPostgre with a pg.Pool returns
\* normally, leaves the engine identifier 'postgre' and the PostgreSQL
\* methods installed; it throws only when an engine was set before
C24_SetPostgreSucceedsWhenFresh ==
  (lastInst.op = "setPostgre" /\ lastInst.arg = "pg.Pool" /\ lastInst.engine = "")
    => (~lastInst.threw /\ sqlEngine = "postgre" /\ sqlMethods = "postgre")

\* C28: a SQLite all/get/run call whose $n placeholders do not match the
\* parameter list rejects with the validation error and does not invoke the
\* method of the underlying database
Mismatched(call) ==
  call.params.t = "array"
    /\ validatePostgresParams(call.query, call.params).errors # << >>

C28_MismatchNeverInvokes ==
  (lastInst.op \in SqlMethods /\ Mismatched(lastInst.arg))
    => /\ lastInst.threw
       /\ lastInst.error = validatePostgresParams(lastInst.arg.query, lastInst.arg.params).errors[1]
       /\ ~lastInst.invoked

-----------------------------------------------------------------------------
(* PuddySqlInstance: the table registry #tables and the asynchronous calls *)
(* initTable and dropTable, each split at its await.                       *)

MaxTables == 2
MaxTasks == 2

\* An asynchronous call suspended at its await
Task(op, name, table) == [op |-> op, name |-> name, table |-> table]

\* this.#tables[name] is set
Registered(tbls, name) == name \in DOMAIN tbls

\* this.#tables[name] = table
RegisterTable(tbls, name, table) ==
  [n \in DOMAIN tbls \cup {name} |-> IF n = name THEN table ELSE tbls[n]]

\* delete this.#tables[name]
UnregisterTable(tbls, name) == [n \in DOMAIN tbls \ {name} |-> tbls[n]]

\* The outcome of a synchronous part of a registry call
TableResult(threw, error, tbls, value) ==
  [threw |-> threw, error |-> error, tables |-> tbls, value |-> value]

\* typeof tableName !== 'string' || tableName.trim() === ''
InvalidTableName(tableName) == tableName.t # "string" \/ IsBlank(tableName.s)

\* initTable(settings, tableData) up to `await newTable.createTable(tableData)`
initTableBegin(tbls, settings) ==
  IF ~isJsonObject(settings)
  THEN TableResult(TRUE, "settings must be a plain object", tbls, Undef)
  ELSE IF Get(settings, "name").t # "string"
  THEN TableResult(TRUE, "settings.name must be a string", tbls, Undef)
  ELSE IF Registered(tbls, Get(settings, "name").s)
  THEN TableResult(TRUE, "This table has already been initialized", tbls, Undef)
  ELSE TableResult(FALSE, "", tbls, Get(settings, "name"))

\* initTable after the await: this.#tables[settings.name] = newTable
initTableEnd(tbls, task, created) ==
  IF created
  THEN TableResult(FALSE, "", RegisterTable(tbls, task.name, task.table), Num(task.table))
  ELSE TableResult(TRUE, "createTable", tbls, Undef)

\* getTable(tableName)
getTable(tbls, tableName) ==
  IF InvalidTableName(tableName)
  THEN TableResult(TRUE, "tableName must be a non-empty string", tbls, Undef)
  ELSE IF ~Registered(tbls, tableName.s)
  THEN TableResult(TRUE, "Table does not exist", tbls, Undef)
  ELSE TableResult(FALSE, "", tbls, Num(tbls[tableName.s]))

\* hasTable(tableName)
hasTable(tbls, tableName) ==
  IF getTable(tbls, tableName).threw THEN getTable(tbls, tableName)
  ELSE TableResult(FALSE, "", tbls, Bool(~Falsy(getTable(tbls, tableName).value)))

\* removeTable(tableName)
removeTable(tbls, tableName) ==
  IF InvalidTableName(tableName)
  THEN TableResult(TRUE, "tableName must be a non-empty string", tbls, Undef)
  ELSE IF ~Registered(tbls, tableName.s)
  THEN TableResult(TRUE, "Table does not exist and cannot be removed", tbls, Undef)
  ELSE TableResult(FALSE, "", UnregisterTable(tbls, tableName.s), Undef)

\* dropTable(tableName) up to `await table.dropTable()`
dropTableBegin(tbls, tableName) ==
  IF InvalidTableName(tableName)
  THEN TableResult(TRUE, "tableName must be a non-empty string", tbls, Undef)
  ELSE IF ~Registered(tbls, tableName.s)
  THEN TableResult(TRUE, "Table does not exist and cannot be dropped", tbls, Undef)
  ELSE TableResult(FALSE, "", tbls, Num(tbls[tableName.s]))

\* PuddySqlQuery.dropTable(): the settlements of its promise. db.run resolved:
\* true; db.run rejected with a connection error: rejects; otherwise false
DropOutcomes == {"true", "false", "reject"}

\* dropTable after the await: this.removeTable(tableName)
dropTableEnd(tbls, task, dropped) ==
  IF dropped = "reject" THEN TableResult(TRUE, "dropTable", tbls, Undef)
  ELSE removeTable(tbls, Str(task.name))

\* A settled registry call, with the registry it acted on
TableCall(op, arg, r, outcome) ==
  [op |-> op, arg |-> arg, threw |-> r.threw, error |-> r.error, value |-> r.value,
   before |-> tables, outcome |-> outcome]

\* A call on the registry that settles without waiting
RegistryCall(op, arg, r) ==
  /\ tables' = r.tables
  /\ lastInst' = TableCall(op, arg, r, "")
  /\ UNCHANGED <<conditions, customValFunc, wildcardA, wildcardB, useJsonEach,
                 pCache, startIndex, frags, clean, calls, regs, last, tokenizerVars,
                 sqlEngine, sqlMethods, tasks, newTables, dbLog>>

\* A call that reaches its await: the task is suspended
Suspend(op, arg, task) ==
  /\ Len(tasks) < MaxTasks
  /\ tasks' = Append(tasks, task)
  /\ lastInst' = [op |-> "await", arg |-> arg, call |-> op]
  /\ UNCHANGED <<conditions, customValFunc, wildcardA, wildcardB, useJsonEach,
                 pCache, startIndex, frags, clean, calls, regs, last, tokenizerVars,
                 sqlEngine, sqlMethods, tables, dbLog>>

\* The awaited promise of task k settles and the call runs to its end
Resume(k, r, outcome) ==
  /\ tables' = r.tables
  /\ tasks' = SubSeq(tasks, 1, k - 1) \o SubSeq(tasks, k + 1, Len(tasks))
  /\ lastInst' = TableCall(tasks[k].op, Str(tasks[k].name), r, outcome)
  /\ UNCHANGED <<conditions, customValFunc, wildcardA, wildcardB, useJsonEach,
                 pCache, startIndex, frags, clean, calls, regs, last, tokenizerVars,
                 sqlEngine, sqlMethods, newTables, dbLog>>

TableNames == {"users", "posts"}
TableNameArgs == {Str(n) : n \in TableNames} \cup {Str(" "), Undef}
TableSettings ==
  {Obj(<<"name">>, <<Str(n)>>) : n \in TableNames}
    \cup {Obj(<< >>, << >>), Str("users")}

\* initTable(settings, tableData): the call, up to its await
InitTable ==
  \E settings \in TableSettings :
    IF initTableBegin(tables, settings).threw
    THEN RegistryCall("initTable", settings, initTableBegin(tables, settings))
    ELSE /\ newTables < MaxTables
         /\ newTables' = newTables + 1
         /\ Suspend("initTable", settings,
                    Task("initTable", Get(settings, "name").s, newTables + 1))

\* createTable settles: it rejects when no engine is installed (the run of
\* PuddySqlEngine rejects), and resolves or rejects otherwise
InitTableSettles ==
  \E k \in 1..Len(tasks), created \in BOOLEAN :
    /\ tasks[k].op = "initTable"
    /\ sqlMethods = "" => ~created
    /\ Resume(k, initTableEnd(tables, tasks[k], created),
              IF created THEN "created" ELSE "reject")

GetTable == \E tableName \in TableNameArgs : RegistryCall("getTable", tableName, getTable(tables, tableName))

HasTable == \E tableName \in TableNameArgs : RegistryCall("hasTable", tableName, hasTable(tables, tableName))

RemoveTable == \E tableName \in TableNameArgs : RegistryCall("removeTable", tableName, removeTable(tables, tableName))

\* dropTable(tableName): the call, up to its await
DropTable ==
  \E tableName \in TableNameArgs :
    IF dropTableBegin(tables, tableName).threw
    THEN RegistryCall("dropTable", tableName, dropTableBegin(tables, tableName))
    ELSE /\ UNCHANGED newTables
         /\ Suspend("dropTable", tableName,
                    Task("dropTable", tableName.s, tables[tableName.s]))

\* table.dropTable() settles
DropTableSettles ==
  \E k \in 1..Len(tasks), dropped \in DropOutcomes :
    /\ tasks[k].op = "dropTable"
    /\ Resume(k, dropTableEnd(tables, tasks[k], dropped), dropped)

\* instance.setSqlite3(db) with a Database
UseSqlite3 == EngineCall("setSqlite3", "Database", setSqlite3(sqlEngine, sqlMethods, "Database"))

NextTables ==
  \/ UseSqlite3
  \/ InitTable
  \/ InitTableSettles
  \/ GetTable
  \/ HasTable
  \/ RemoveTable
  \/ DropTable
  \/ DropTableSettles

SpecTables == Init /\ [][NextTables]_vars

\* C25: a name is initialised at most once: the PuddySqlQuery registered
\* under a name is not replaced by another one while the name stays
\* registered, whatever calls were started while the first one was waiting
C25_RegisteredOnce ==
  [][\A n \in DOMAIN tables \cap DOMAIN tables' : tables'[n] = tables[n]]_vars

\* C26: a dropTable call whose DROP TABLE did not succeed (resolved false or
\* rejected) leaves the table registered
C26_FailedDropKeepsTable ==
  (lastInst.op = "dropTable" /\ lastInst.outcome \in {"false", "reject"}
     /\ lastInst.arg.s \in DOMAIN lastInst.before)
    => (lastInst.arg.s \in DOMAIN tables /\ tables[lastInst.arg.s] = lastInst.before[lastInst.arg.s])

-----------------------------------------------------------------------------
(* PuddySqlQuery.advancedDelete and advancedUpdate: the statement handed   *)
(* to db.run.                                                              *)

\* this.#settings.name and the column types of this.#table
TableName == "items"
TableTypes == [c \in {"status", "data"} |-> IF c = "data" THEN "JSON" ELSE "TEXT"]

\* What an advanced call does: it throws, or hands query and params to db.run
Statement(threw, error, query, params) ==
  [threw |-> threw, error |-> error, query |-> query, params |-> params]

\* The statement without the test of whereClause
DeleteStatementUnchecked(w) ==
  IF w.threw THEN Statement(TRUE, "parseWhere", << >>, << >>)
  ELSE Statement(FALSE, "", <<"DELETE FROM ", TableName, " WHERE ">> \o w.text,
                 w.cache.values)

\* if (!whereClause) throw ...; query = `DELETE FROM ${name} WHERE ${whereClause}`
DeleteStatement(w) ==
  IF w.threw THEN Statement(TRUE, "parseWhere", << >>, << >>)
  ELSE IF Render(w.text) = ""
  THEN Statement(TRUE, "Empty WHERE clause - deletion aborted for safety", << >>, << >>)
  ELSE Statement(FALSE, "", <<"DELETE FROM ", TableName, " WHERE ">> \o w.text,
                 w.cache.values)

\* advancedDelete(filter); an omitted filter is {}
advancedDelete(filter, conds, cvf) ==
  IF ~isJsonObject(filter)
  THEN Statement(TRUE, "Invalid filter object for advancedDelete", << >>, << >>)
  ELSE DeleteStatement(parseWhere(Cache(1, << >>), filter, conds, cvf))

\* escapeValuesFix(v, name) on a column of the table: JSON.stringify for the
\* JSON type, the value itself for a type without a handler
escapeValuesFix(v, name) ==
  IF TableTypes[name] = "JSON" THEN [t |-> "json", of |-> v] ELSE v

\* columns.map((col, index) => `${col} = $${index + 1}`).join(', ')
SetClause(columns) ==
  Flatten([k \in 1..Len(columns) |->
             (IF k > 1 THEN <<", ">> ELSE << >>) \o <<columns[k], " = ", Placeholder(k)>>])

\* if (!whereClause) throw ...; query = `UPDATE ${name} SET ${setClause} WHERE ...`
UpdateStatement(valueObj, w) ==
  IF w.threw THEN Statement(TRUE, "parseWhere", << >>, << >>)
  ELSE IF Render(w.text) = ""
  THEN Statement(TRUE, "Empty WHERE clause - update aborted for safety", << >>, << >>)
  ELSE Statement(FALSE, "",
                 <<"UPDATE ", TableName, " SET ">> \o SetClause(valueObj.keys)
                   \o <<" WHERE ">> \o w.text,
                 [k \in 1..Len(valueObj.keys) |->
                    escapeValuesFix(valueObj.vals[k], valueObj.keys[k])]
                   \o w.cache.values)

\* advancedUpdate(valueObj, filter); omitted arguments are {}
advancedUpdate(valueObj, filter, conds, cvf) ==
  IF ~isJsonObject(filter)
  THEN Statement(TRUE, "Invalid filter object for advancedUpdate", << >>, << >>)
  ELSE IF ~isJsonObject(valueObj) \/ Len(valueObj.keys) = 0
  THEN Statement(TRUE, "No update values provided for advancedUpdate", << >>, << >>)
  ELSE IF \E k \in 1..Len(valueObj.keys) : valueObj.keys[k] \notin DOMAIN TableTypes
  THEN Statement(TRUE, "TypeError: Cannot read properties of undefined (reading 'type')",
                 << >>, << >>)
  ELSE UpdateStatement(valueObj,
                       parseWhere(Cache(Len(valueObj.keys) + 1, << >>), filter, conds, cvf))

\* filter = {} and valueObj = {} for an omitted argument
DefaultObject(v) == IF v.t = "undefined" THEN Obj(<< >>, << >>) ELSE v

\* The call and its db.run(query, params, debugName)
AdvancedCall(op, arg, filter, st) ==
  /\ Len(dbLog) < MaxDbCalls
  /\ dbLog' = IF st.threw THEN dbLog ELSE Append(dbLog, DbInvoked("run", st.query))
  /\ lastInst' = [op |-> op, arg |-> arg, filter |-> filter, threw |-> st.threw,
                  error |-> st.error, query |-> st.query, params |-> st.params,
                  log |-> dbLog]
  /\ UNCHANGED <<conditions, customValFunc, wildcardA, wildcardB, useJsonEach,
                 pCache, startIndex, frags, clean, calls, regs, last, tokenizerVars,
                 sqlEngine, sqlMethods, tables, tasks, newTables>>

AdvancedFilters ==
  SessionGroups
    \cup { Undef, Null,
           Group(Undef, <<EmptyObject>>),
           Group(Str("OR"), <<Group(Undef, << >>), EmptyObject>>),
           Group(Undef, <<Str("status")>>) }

UpdateValues ==
  { Undef, Obj(<< >>, << >>), Obj(<<"status">>, <<Str("done")>>),
    Obj(<<"status", "data">>, <<Str("done"), Obj(<< >>, << >>)>>),
    Obj(<<"missing">>, <<Num(1)>>) }

AdvancedDelete ==
  \E filter \in AdvancedFilters :
    AdvancedCall("advancedDelete", <<filter>>, DefaultObject(filter),
                 advancedDelete(DefaultObject(filter), conditions, customValFunc))

AdvancedUpdate ==
  \E valueObj \in UpdateValues, filter \in AdvancedFilters :
    AdvancedCall("advancedUpdate", <<valueObj, filter>>, DefaultObject(filter),
                 advancedUpdate(DefaultObject(valueObj), DefaultObject(filter),
                                conditions, customValFunc))

NextAdvanced == AdvancedDelete \/ AdvancedUpdate

SpecAdvanced == Init /\ [][NextAdvanced]_vars

\* The last call was an advanced call whose filter compiles to ''
CompilesToEmpty ==
  /\ lastInst.op \in {"advancedDelete", "advancedUpdate"}
  /\ isJsonObject(lastInst.filter)
  /\ ~parseWhere(Cache(1, << >>), lastInst.filter, conditions, customValFunc).threw
  /\ Render(parseWhere(Cache(1, << >>), lastInst.filter, conditions, customValFunc).text) = ""

\* C27: an advancedDelete or advancedUpdate call whose filter compiles to an
\* empty WHERE clause throws and hands nothing to db.run, and no statement
\* handed to db.run ends at its WHERE keyword
C27_EmptyWhereNeverSent ==
  /\ CompilesToEmpty => (lastInst.threw /\ dbLog = lastInst.log)
  /\ \A k \in 1..Len(dbLog) : dbLog[k].query[Len(dbLog[k].query)] # " WHERE "

\* advancedDelete on a group with an empty conditions array has thrown
C27_Witness ==
  /\ lastInst.op = "advancedDelete"
  /\ lastInst.filter = Group(Str("OR"), << >>)
  /\ lastInst.error = "Empty WHERE clause - deletion aborted for safety"
  /\ dbLog = << >>

-----------------------------------------------------------------------------
(* PuddySqlTags.parseString on terms next to parentheses and on terms that *)
(* hold the letters of a keyword (SpecTerms).                              *)

MaxInside == 2
MaxWords == 2

SepSpace == <<" ">>

\* Terms without a keyword, a quote, a parenthesis or a registered symbol
GroupTerms == {<<"a">>, <<"b">>, <<"c", "d">>}

\* before sep ( inside[1] seps[1] inside[2] ... )
GroupInput(before, sep, inside, seps) ==
  [family |-> "group", before |-> before, sep |-> sep, inside |-> inside, seps |-> seps,
   terms |-> <<before>> \o inside,
   text |-> before \o sep \o InParens(Interleave(inside, seps))]

GroupInputs ==
  UNION {{GroupInput(before, sep, inside, seps) :
            before \in GroupTerms, sep \in Seps \cup {SepSpace},
            seps \in [1..(Len(inside) - 1) -> Seps]} :
         inside \in SeqsUpTo(GroupTerms, MaxInside) \ {<<>>}}

\* Words that begin with 'and' or end with 'or', and one that does neither
Android == <<"a", "n", "d", "r", "o", "i", "d">>
Color == <<"c", "o", "l", "o", "r">>
Words == {Android, Color, <<"x">>}

\* The terms of words[1] seps[1] words[2] ...: the keywords AND and OR
\* separate terms, a space joins two words into one term
RECURSIVE JoinWords(_, _, _)
JoinWords(words, seps, term) ==
  IF Len(words) = 1 THEN <<term \o words[1]>>
  ELSE IF seps[1] = SepSpace
  THEN JoinWords(Tail(words), Tail(seps), term \o words[1] \o SepSpace)
  ELSE <<term \o words[1]>> \o JoinWords(Tail(words), Tail(seps), << >>)

WordsInput(words, seps) ==
  [family |-> "words", words |-> words, seps |-> seps,
   terms |-> JoinWords(words, seps, << >>),
   text |-> Interleave(words, seps)]

WordsInputs ==
  UNION {{WordsInput(words, seps) :
            seps \in [1..(Len(words) - 1) -> Seps \cup {SepSpace}]} :
         words \in SeqsUpTo(Words, MaxWords) \ {<<>>}}

InitTerms == InitTokenizer(GroupInputs \cup WordsInputs)

\* tags.parseString(input) and tags.parseString(input, true)
ParseTerms == ParseDefault

NextTerms == ParseTerms

SpecTerms == InitTerms /\ [][NextTerms]_vars

\* C29: with duplicate suppression off, no parse limit and no special
\* query, every term of the input is in the include list once, in input
\* order, also the term that stands before an opening parenthesis
C29_NoTermLost ==
  (Parsed /\ lastTags.arg.input.family = "group")
    => ChunkTerms(lastTags.result.include) = lastTags.arg.input.terms

\* C30: AND and OR separate terms only as whole words: a term that begins
\* with 'and' after a space or ends with 'or' before a space reaches the
\* include list with all its characters
C30_KeywordsAreWholeWords ==
  (Parsed /\ lastTags.arg.input.family = "words")
    => ChunkTerms(lastTags.result.include) = lastTags.arg.input.terms

====
